---- MODULE Spec2Model ----
(***************************************************************************)
(* Verification model of the hydrostatics / stability repository.          *)
(*                                                                         *)
(* Numbers.  Lengths are metres.  A waterline height zc is a "fino" value: *)
(* the integer 3*z stands for the grid height z, 3*z+1 for a float just    *)
(* above z and 3*z-1 for a float just below z, so that the code's strict   *)
(* and non-strict comparisons (zc <= z_min, zc < z_min, z_min <= zc) are   *)
(* integer comparisons and the one-sided limits at the break points of the *)
(* case logic are inputs like any other.  Areas and volumes are carried    *)
(* doubled (area2 = 2*area) so that every integral of the box section is   *)
(* an integer.  integrar's trapezoid rule (step 0.001) is taken as the     *)
(* exact integral.                                                         *)
(***************************************************************************)
EXTENDS Integers, Sequences, FiniteSets, TLC

VARIABLES
    \* PropriedadesCruzadas.calcular_kn_para_ponto / _encontrar_zc_para_volume
    pc, deslocamento, angulo_graus, volume_desejado, zc_fsolve, zc_solucao,
    volume_final, kn_valor, fallback_iniciado, fsolve_falhou, excecao,
    chute_chamado,
    \* CalculadoraCurvasCruzadas.calcular_curvas_kn
    pcKN, lista_deslocamentos, lista_angulos, tarefas, resultado_worker,
    ordem_conclusao, tabela_kn, excecao_kn,
    \* the trim/sinkage loops of CalculadoraEED and CalculadoraRPI
    pcTrim, rotina, desloc_alvo, lcg_alvo, calado_re_atual,
    calado_vante_atual, avaliacoes, resultado_flutuacao,
    \* FileHandler.processar_dados_balizas and InterpoladorCasco
    pcCasco, tabela_cotas, referencial_saida, metodo_interp,
    tabela_processada, funcoes_baliza, erro_casco,
    \* PropriedadesCruzadas._encontrar_raizes
    pcRaizes, valores_f, indice, raizes_encontradas, raizes_retornadas, excecao_raizes,
    \* the hull geometry shared by the computations of PropriedadesCruzadas
    pcPureza, casco_geo, funcoes_baliza_bb, ultima_chamada, ultimo_resultado,
    historico, chamada_repetida, ultimo_volume,
    \* PropriedadesHidrostaticas (ch.py) at one draft
    pcHidro, modulo_hid, casco_hid, calado_hid, hid,
    \* integrar (utils/integration.py)
    pcIntegrar, integrando, limite_inferior, limite_superior,
    avaliacoes_integrando,
    area_integrar,
    \* the half-breadth lookups of ch.py and cc.py
    pcConsulta, consulta,
    \* the case logic of the two sides of a heeled section (cc.py)
    pcCasos, casos,
    \* CalculadoraEED.gerar_curvas_estabilidade
    pcGZ, entrada_gz, indice_gz, curvas_gz,
    \* CalculadoraRPI.calcular_momentos_inclinantes
    pcInclinantes, itens_a_deduzir, estado_atual_pesos, momentos_calculados,
    momentos_inclinantes,
    \* the report steps of CalculadoraRPI
    pcRPI, dados_rpi, rpi,
    \* gerar_lista_de_calados (utils/list_utils.py)
    pcLista, dados_calado, lista_calados

varsZc == <<pc, deslocamento, angulo_graus, volume_desejado, zc_fsolve,
            zc_solucao, volume_final, kn_valor, fallback_iniciado, chute_chamado,
            fsolve_falhou, excecao>>

varsKN == <<pcKN, lista_deslocamentos, lista_angulos, tarefas,
            resultado_worker, ordem_conclusao, tabela_kn, excecao_kn>>

varsTrim == <<pcTrim, rotina, desloc_alvo, lcg_alvo, calado_re_atual,
              calado_vante_atual, avaliacoes, resultado_flutuacao>>

varsCasco == <<pcCasco, tabela_cotas, referencial_saida, metodo_interp,
               tabela_processada, funcoes_baliza, erro_casco>>

varsRaizes == <<pcRaizes, valores_f, indice, raizes_encontradas, raizes_retornadas,
                excecao_raizes>>

varsPureza == <<pcPureza, casco_geo, funcoes_baliza_bb, ultima_chamada,
                ultimo_resultado, historico, chamada_repetida,
                ultimo_volume>>

varsHidro == <<pcHidro, modulo_hid, casco_hid, calado_hid, hid>>

varsIntegrar == <<pcIntegrar, integrando, limite_inferior, limite_superior,
                  avaliacoes_integrando, area_integrar>>

varsConsulta == <<pcConsulta, consulta>>

varsCasos == <<pcCasos, casos>>

varsGZ == <<pcGZ, entrada_gz, indice_gz, curvas_gz>>

varsInclinantes == <<pcInclinantes, itens_a_deduzir, estado_atual_pesos,
                    momentos_calculados, momentos_inclinantes>>

varsRPI == <<pcRPI, dados_rpi, rpi>>

varsLista == <<pcLista, dados_calado, lista_calados>>

varsNovos == <<varsConsulta, varsCasos, varsGZ, varsInclinantes, varsRPI,
               varsLista>>

varsAntigos == <<varsZc, varsKN, varsTrim, varsCasco, varsRaizes, varsPureza,
                 varsHidro, varsIntegrar>>

vars == <<varsAntigos, varsNovos>>

\* the state of each part before any of its operations is called
KnInicial ==
    /\ pcKN = "ocioso"
    /\ lista_deslocamentos = <<>>
    /\ lista_angulos = <<>>
    /\ tarefas = <<>>
    /\ resultado_worker = <<>>
    /\ ordem_conclusao = <<>>
    /\ tabela_kn = <<>>
    /\ excecao_kn = FALSE

TrimInicial ==
    /\ pcTrim = "ocioso"
    /\ rotina = "eed"
    /\ desloc_alvo = 0
    /\ lcg_alvo = 0
    /\ calado_re_atual = 0
    /\ calado_vante_atual = 0
    /\ avaliacoes = 0
    /\ resultado_flutuacao = <<>>

CascoInicial ==
    /\ pcCasco = "ocioso"
    /\ tabela_cotas = {}
    /\ referencial_saida = "Perpendicular"
    /\ metodo_interp = "linear"
    /\ tabela_processada = {}
    /\ funcoes_baliza = {}
    /\ erro_casco = "nenhum"

RaizesInicial ==
    /\ pcRaizes = "ocioso"
    /\ valores_f = <<>>
    /\ indice = 0
    /\ raizes_encontradas = <<>>
    /\ raizes_retornadas = <<>>
    /\ excecao_raizes = FALSE

PurezaInicial ==
    /\ pcPureza = "ocioso"
    /\ casco_geo = <<>>
    /\ chamada_repetida = FALSE
    /\ funcoes_baliza_bb = {}
    /\ ultima_chamada = <<>>
    /\ ultimo_resultado = <<>>
    /\ historico = <<>>
    /\ ultimo_volume = <<>>

HidroInicial ==
    /\ pcHidro = "ocioso"
    /\ modulo_hid = "nenhum"
    /\ casco_hid = <<>>
    /\ calado_hid = 0
    /\ hid = <<>>

IntegrarInicial ==
    /\ pcIntegrar = "ocioso"
    /\ integrando = "nenhum"
    /\ limite_inferior = 0
    /\ limite_superior = 0
    /\ avaliacoes_integrando = 0
    /\ area_integrar = 0

ConsultaInicial == pcConsulta = "ocioso" /\ consulta = <<>>

CasosInicial == pcCasos = "ocioso" /\ casos = <<>>

GZInicial ==
    /\ pcGZ = "ocioso"
    /\ entrada_gz = <<>>
    /\ indice_gz = 0
    /\ curvas_gz = <<>>

InclinantesInicial ==
    /\ pcInclinantes = "ocioso"
    /\ itens_a_deduzir = <<>>
    /\ estado_atual_pesos = <<>>
    /\ momentos_calculados = <<>>
    /\ momentos_inclinantes = <<>>

RPIInicial == pcRPI = "ocioso" /\ dados_rpi = <<>> /\ rpi = <<>>

ListaInicial ==
    pcLista = "ocioso" /\ dados_calado = <<>> /\ lista_calados = <<>>

NovosIniciais ==
    /\ ConsultaInicial /\ CasosInicial /\ GZInicial
    /\ InclinantesInicial /\ RPIInicial /\ ListaInicial

----------------------------------------------------------------------------
(* The hull of the model: the box of the specification's scenario, two     *)
(* stations (x = 0 and x = Lpp) with offsets (z, y) = (0, b), (Pontal, b). *)

MeiaBoca == 2
Pontal == 2
Lpp == 10
MaxVolume == 90

\* density 1.025 t/m3, displacements in kg
Densidade == 1025

Abs(x) == IF x < 0 THEN -x ELSE x
Min(a, b) == IF a <= b THEN a ELSE b
Max(a, b) == IF a >= b THEN a ELSE b

Fino(z) == 3 * z
Std(n) == (n + 1) \div 3

z_min == Fino(0)
z_max == Fino(Pontal)

\* heel angles of the model, in degrees
Angulos == {0, 45, -45, 90}

\* abs(theta_graus) < 1 or abs(theta_graus) > 89
AnguloDegenerado(theta) == Abs(theta) < 1 \/ Abs(theta) > 89

\* np.tan(np.deg2rad(-theta_graus)) for theta = +-45
tan_theta(theta) == IF theta > 0 THEN -1 ELSE 1

\* integrar(interpolador, lo, hi) for the box offset curve y = s*MeiaBoca
integrar_baliza(lo, hi, s) ==
    IF lo >= hi THEN 0 ELSE 2 * s * MeiaBoca * (Std(hi) - Std(lo))

\* integrar(y_wl, lo, hi) with y_wl(z) = (zc - z) / tan_theta
integrar_wl(lo, hi, zc, t) ==
    IF lo >= hi THEN 0
    ELSE t * ((Std(zc) - Std(lo)) * (Std(zc) - Std(lo))
              - (Std(zc) - Std(hi)) * (Std(zc) - Std(hi)))

\* _encontrar_raizes on funcao_dif(z) = s*b - (zc - z)/tan_theta, which is
\* linear in z: its only zero is found iff it lies in [z_min, z_max]
raizes_dif(zc, t, s) ==
    LET raiz == zc - s * t * Fino(MeiaBoca)
    IN IF z_min <= raiz /\ raiz <= z_max THEN <<raiz>> ELSE <<>>

\* the tan_theta read at line 138 before its assignment at line 168
bombordo_levanta(theta) == AnguloDegenerado(theta)

\* integrar called with the keywords z_min and z_max (lines 269-291), which
\* are not parameters of integrar: TypeError
boreste_levanta(theta) == AnguloDegenerado(theta)

_calcular_propriedades_bombordo(zc, theta) ==
    LET t == tan_theta(theta)
        raizes == raizes_dif(zc, t, -1)
    IN IF zc <= z_min THEN 0
       ELSE IF raizes = <<>> THEN integrar_baliza(z_min, z_max, -1)
       ELSE integrar_baliza(z_min, raizes[1], -1)
            + integrar_wl(raizes[1], Min(zc, z_max), zc, t)

_calcular_propriedades_boreste(zc, theta) ==
    LET t == tan_theta(theta)
        raizes == raizes_dif(zc, t, 1)
    IN IF zc < z_min
       THEN IF Len(raizes) >= 2
            THEN integrar_baliza(raizes[1], raizes[2], 1)
                 - integrar_wl(raizes[1], raizes[2], zc, t)
            ELSE IF Len(raizes) = 1
            THEN integrar_baliza(raizes[1], z_max, 1)
                 - integrar_wl(raizes[1], z_max, zc, t)
            ELSE 0
       ELSE IF z_min <= zc /\ zc < z_max
       THEN IF Len(raizes) = 1
            THEN integrar_baliza(z_min, raizes[1], 1)
                 - integrar_wl(zc, raizes[1], zc, t)
            ELSE integrar_baliza(z_min, z_max, 1)
                 - integrar_wl(zc, z_max, zc, t)
       ELSE integrar_baliza(z_min, z_max, 1)

\* the two sides added without the absolute value
secao_inclinada_sem_abs(zc, theta) ==
    - _calcular_propriedades_bombordo(zc, theta)
    + _calcular_propriedades_boreste(zc, theta)

\* area_total = -area_bb + abs(area_be)
_calcular_propriedades_secao_inclinada(zc, theta) ==
    - _calcular_propriedades_bombordo(zc, theta)
    + Abs(_calcular_propriedades_boreste(zc, theta))

\* trapezoid(y = areas_secao, x = coords_x) over the two stations
_calcular_propriedades_para_zc_inclinado(zc, theta) ==
    (Lpp * (_calcular_propriedades_secao_inclinada(zc, theta)
            + _calcular_propriedades_secao_inclinada(zc, theta))) \div 2


----------------------------------------------------------------------------
(* The static moments of the section (cc.py lines 101-453) at the heights  *)
(* of the grid.  A side is the triple (area, my, mz) with the area doubled *)
(* and the two moments multiplied by 6, which makes every integral of the  *)
(* box section at tan(theta) = +-1 an integer.                             *)

Lado(a, my, mz) == [area |-> a, my |-> my, mz |-> mz]

LadoNulo == Lado(0, 0, 0)

Cubo(n) == n * n * n

\* integrar of interpolador, 0.5 * interpolador**2 and z * interpolador
momentos_baliza(lo, hi, s) ==
    IF lo >= hi THEN LadoNulo
    ELSE Lado(2 * s * MeiaBoca * (Std(hi) - Std(lo)),
              3 * MeiaBoca * MeiaBoca * (Std(hi) - Std(lo)),
              3 * s * MeiaBoca * (Std(hi) * Std(hi) - Std(lo) * Std(lo)))

\* integrar of y_wl, 0.5 * y_wl**2 and z * y_wl, y_wl(z) = (zc - z) / tan
momentos_wl(lo, hi, zc, t) ==
    IF lo >= hi THEN LadoNulo
    ELSE Lado(integrar_wl(lo, hi, zc, t),
              Cubo(Std(zc) - Std(lo)) - Cubo(Std(zc) - Std(hi)),
              t * (3 * Std(zc) * (Std(hi) * Std(hi) - Std(lo) * Std(lo))
                   - 2 * (Cubo(Std(hi)) - Cubo(Std(lo)))))

Soma(p, q) == Lado(p.area + q.area, p.my + q.my, p.mz + q.mz)
Dif(p, q) == Lado(p.area - q.area, p.my - q.my, p.mz - q.mz)

\* _calcular_propriedades_bombordo, lines 168-230, with its moments
momentos_bombordo(zc, theta) ==
    LET t == tan_theta(theta)
        raizes == raizes_dif(zc, t, -1)
    IN IF zc <= z_min THEN LadoNulo
       ELSE IF raizes = <<>> THEN momentos_baliza(z_min, z_max, -1)
       ELSE Soma(momentos_baliza(z_min, raizes[1], -1),
                 momentos_wl(raizes[1], Min(zc, z_max), zc, t))

\* _calcular_propriedades_boreste, lines 300-399, with its moments
momentos_boreste(zc, theta) ==
    LET t == tan_theta(theta)
        raizes == raizes_dif(zc, t, 1)
    IN IF zc < z_min
       THEN IF Len(raizes) >= 2
            THEN Dif(momentos_baliza(raizes[1], raizes[2], 1),
                     momentos_wl(raizes[1], raizes[2], zc, t))
            ELSE IF Len(raizes) = 1
            THEN Dif(momentos_baliza(raizes[1], z_max, 1),
                     momentos_wl(raizes[1], z_max, zc, t))
            ELSE LadoNulo
       ELSE IF z_min <= zc /\ zc < z_max
       THEN IF Len(raizes) = 1
            THEN Dif(momentos_baliza(z_min, raizes[1], 1),
                     momentos_wl(zc, raizes[1], zc, t))
            ELSE Dif(momentos_baliza(z_min, z_max, 1),
                     momentos_wl(zc, z_max, zc, t))
       ELSE momentos_baliza(z_min, z_max, 1)

\* lines 446-450: area_total = -area_bb + abs(area_be),
\* momento_y_total = -my_bb + my_be, momento_z_total = -mz_bb + mz_be
momentos_secao_inclinada(zc, theta) ==
    LET bb == momentos_bombordo(zc, theta)
        be == momentos_boreste(zc, theta)
    IN  Lado(-bb.area + Abs(be.area), -bb.my + be.my, -bb.mz + be.mz)


----------------------------------------------------------------------------
(* Waterline heights as the solvers see them.  A point is a fino height    *)
(* together with the doubled volume the hull has there.  Inside an open    *)
(* grid cell (z, z+1) the case logic selects one regime and the volume is  *)
(* a polynomial in zc, so the cell holds a height for every volume between *)
(* its two end values: these are the interior points.                      *)

ZcNaN == [nan |-> TRUE, fino |-> 0, vol |-> 0]
Ponto(n, v) == [nan |-> FALSE, fino |-> n, vol |-> v]

\* zc_min_busca = -0.5 * boca_maxima * tan_theta_abs - 1.0, boca = 2*MeiaBoca
zc_min_busca == Fino(-MeiaBoca - 1)
\* zc_max_busca = 0.5 * boca_maxima * tan_theta_abs + pontal_maximo + 1.0
zc_max_busca == Fino(MeiaBoca + Pontal + 1)

PontoEm(n, theta) == Ponto(n, _calcular_propriedades_para_zc_inclinado(n, theta))

PontosDaGrade(theta) == {PontoEm(n, theta) : n \in zc_min_busca..zc_max_busca}

Entre(v, a, b) == (a < v /\ v < b) \/ (b < v /\ v < a)

PontosInteriores(theta) ==
    UNION {{Ponto(n, v) : v \in {w \in 0..Max(PontoEm(n, theta).vol,
                                                PontoEm(n + 1, theta).vol) :
                Entre(w, PontoEm(n, theta).vol, PontoEm(n + 1, theta).vol)}} :
           n \in {m \in zc_min_busca..(zc_max_busca - 1) : m % 3 = 1}}

PontosZc(theta) == PontosDaGrade(theta) \cup PontosInteriores(theta)

\* evaluated once for each of the two general heel angles
TabelaPontosZc == [theta \in {45, -45} |-> PontosZc(theta)]

\* funcao_objetivo(zc) = volume(zc) - volume_desejado (doubled)
funcao_objetivo(p, volume) == p.vol - 2 * volume

\* exceptions raised while evaluating funcao_objetivo
objetivo_levanta(theta) == bombordo_levanta(theta)

\* fsolve(funcao_objetivo, x0 = zc_chute_inicial, full_output = True):
\* hybrd returns its last iterate whether or not it converged
fsolve_resultados(volume, theta) == TabelaPontosZc[theta]

\* a tolerance of 0.1% instead of 1%
residuo_aceito_estrito(p, volume) ==
    1000 * Abs(funcao_objetivo(p, volume)) < 2 * volume

\* erro_final < 0.01 * volume_desejado
residuo_aceito(p, volume) == 100 * Abs(funcao_objetivo(p, volume)) < 2 * volume

\* brentq(funcao_objetivo, a = zc_min_busca, b = zc_max_busca): ValueError
\* (the empty set) when f(a) * f(b) > 0; otherwise a point where f is zero or
\* one side of a jump across which f changes sign
brentq_resultados(volume, theta) ==
    LET f(n) == funcao_objetivo(PontoEm(n, theta), volume)
    IN IF f(zc_min_busca) * f(zc_max_busca) > 0 THEN {}
       ELSE {p \in TabelaPontosZc[theta] : funcao_objetivo(p, volume) = 0}
            \cup UNION {{PontoEm(n, theta), PontoEm(n + 1, theta)} :
                   n \in {m \in zc_min_busca..(zc_max_busca - 1) :
                            m % 3 # 1 /\ f(m) * f(m + 1) < 0}}

TabelaBrentq ==
    [volume \in 0..MaxVolume, theta \in {45, -45} |->
        brentq_resultados(volume, theta)]

\* the value calcular_kn_para_ponto returns: KN = y_cb*cos + z_cb*sin is a
\* function of the heel angle and the solved waterline
KnNaN == [tipo |-> "nan", theta |-> 0, zc |-> ZcNaN]
KnZero == [tipo |-> "zero", theta |-> 0, zc |-> ZcNaN]
KnDe(theta, zc) == [tipo |-> "valor", theta |-> theta, zc |-> zc]

\* displacements of the model: those of the volumes 0..MaxVolume
Deslocamentos == {Densidade * v : v \in 0..MaxVolume}


----------------------------------------------------------------------------
(* PropriedadesCruzadas.calcular_kn_para_ponto and the solve it calls,     *)
(* _encontrar_zc_para_volume, as one sequential process.                   *)

ZcInicial ==
    /\ pc = "ocioso"
    /\ deslocamento = 0
    /\ angulo_graus = 0
    /\ volume_desejado = 0
    /\ zc_fsolve = ZcNaN
    /\ zc_solucao = ZcNaN
    /\ volume_final = 0
    /\ kn_valor = KnNaN
    /\ fallback_iniciado = FALSE
    /\ chute_chamado = FALSE
    /\ fsolve_falhou = FALSE
    /\ excecao = FALSE

InitZc ==
    /\ PurezaInicial
    /\ HidroInicial
    /\ IntegrarInicial
    /\ NovosIniciais
    /\ ZcInicial
    /\ KnInicial
    /\ TrimInicial
    /\ CascoInicial
    /\ RaizesInicial

\* only the volume is tested before the solve
caso_trivial_so_volume(volume, angulo) == 1000 * volume < 1

\* volume_desejado < 1e-3 or abs(angulo_graus) < 1e-3
caso_trivial(volume, angulo) == 1000 * volume < 1 \/ 1000 * Abs(angulo) < 1

\* calcular_kn_para_ponto, lines 627-636: the conversion, the early return
\* and, past it, the call of interp_chute_zc for the first guess
calcular_kn_para_ponto(d, a) ==
    /\ pc = "ocioso"
    /\ deslocamento' = d
    /\ angulo_graus' = a
    /\ volume_desejado' = d \div Densidade
    /\ IF caso_trivial(d \div Densidade, a)
       THEN /\ kn_valor' = KnZero
            /\ pc' = "retornou"
            /\ UNCHANGED chute_chamado
       ELSE /\ kn_valor' = kn_valor
            /\ chute_chamado' = TRUE
            /\ pc' = "fsolve"
    /\ UNCHANGED <<zc_fsolve, zc_solucao, volume_final, fallback_iniciado,
                   fsolve_falhou, excecao>>
    /\ UNCHANGED <<varsKN, varsTrim, varsCasco, varsRaizes,
                   varsPureza, varsHidro, varsIntegrar,
                   varsNovos>>

\* the try block, line 545: fsolve either raises what funcao_objetivo raises
\* (caught by "except Exception", line 561) or returns a point
tentar_fsolve ==
    /\ pc = "fsolve"
    /\ IF objetivo_levanta(angulo_graus)
       THEN /\ fsolve_falhou' = TRUE
            /\ pc' = "brentq"
            /\ UNCHANGED zc_fsolve
       ELSE /\ \E p \in fsolve_resultados(volume_desejado, angulo_graus) :
                 zc_fsolve' = p
            /\ pc' = "residuo"
            /\ UNCHANGED fsolve_falhou
    /\ UNCHANGED <<deslocamento, angulo_graus, volume_desejado, zc_solucao,
                   volume_final, kn_valor, fallback_iniciado, excecao,
                   chute_chamado>>
    /\ UNCHANGED <<varsKN, varsTrim, varsCasco, varsRaizes,
                   varsPureza, varsHidro, varsIntegrar,
                   varsNovos>>

\* lines 550-558: the residual test; a rejected result raises ValueError,
\* caught at line 561
testar_residuo ==
    /\ pc = "residuo"
    /\ IF residuo_aceito(zc_fsolve, volume_desejado)
       THEN /\ zc_solucao' = zc_fsolve
            /\ pc' = "final"
            /\ UNCHANGED fsolve_falhou
       ELSE /\ fsolve_falhou' = TRUE
            /\ pc' = "brentq"
            /\ UNCHANGED zc_solucao
    /\ UNCHANGED <<deslocamento, angulo_graus, volume_desejado, zc_fsolve,
                   volume_final, kn_valor, fallback_iniciado, excecao,
                   chute_chamado>>
    /\ UNCHANGED <<varsKN, varsTrim, varsCasco, varsRaizes,
                   varsPureza, varsHidro, varsIntegrar,
                   varsNovos>>

\* a handler that lets the solver's exception through
tratar_falha_brentq_relanca == <<TRUE, KnNaN>>

\* what the handler of a failed fallback does (lines 578-583 and 648-649):
\* <<exception escapes, value returned>>
tratar_falha_brentq == <<FALSE, KnNaN>>

\* the except block, lines 561-583: the bracketed fallback
tentar_brentq ==
    /\ pc = "brentq"
    /\ fallback_iniciado' = TRUE
    /\ UNCHANGED chute_chamado
    /\ IF objetivo_levanta(angulo_graus)
          \/ TabelaBrentq[volume_desejado, angulo_graus] = {}
       THEN /\ zc_solucao' = ZcNaN
            /\ excecao' = tratar_falha_brentq[1]
            /\ kn_valor' = tratar_falha_brentq[2]
            /\ pc' = "retornou"
       ELSE /\ \E p \in TabelaBrentq[volume_desejado, angulo_graus] :
                 zc_solucao' = p
            /\ pc' = "final"
            /\ UNCHANGED <<excecao, kn_valor>>
    /\ UNCHANGED <<deslocamento, angulo_graus, volume_desejado, zc_fsolve,
                   volume_final, fsolve_falhou>>
    /\ UNCHANGED <<varsKN, varsTrim, varsCasco, varsRaizes,
                   varsPureza, varsHidro, varsIntegrar,
                   varsNovos>>

\* lines 585-595 and 647-656: the properties at the solved waterline (this
\* evaluation is outside the try block) and the KN value
calcular_final ==
    /\ pc = "final"
    /\ IF objetivo_levanta(angulo_graus)
       THEN /\ excecao' = TRUE
            /\ UNCHANGED <<volume_final, kn_valor>>
       ELSE /\ volume_final' = zc_solucao.vol
            /\ kn_valor' = IF zc_solucao.nan THEN KnNaN
                           ELSE KnDe(angulo_graus, zc_solucao)
            /\ UNCHANGED excecao
    /\ pc' = "retornou"
    /\ UNCHANGED <<deslocamento, angulo_graus, volume_desejado, zc_fsolve,
                   zc_solucao, fallback_iniciado, fsolve_falhou,
                   chute_chamado>>
    /\ UNCHANGED <<varsKN, varsTrim, varsCasco, varsRaizes,
                   varsPureza, varsHidro, varsIntegrar,
                   varsNovos>>

NextZc ==
    \/ \E d \in Deslocamentos, a \in Angulos : calcular_kn_para_ponto(d, a)
    \/ tentar_fsolve
    \/ testar_residuo
    \/ tentar_brentq
    \/ calcular_final

SpecZc == InitZc /\ [][NextZc]_vars


----------------------------------------------------------------------------
(* CalculadoraCurvasCruzadas.calcular_curvas_kn: the grid of tasks, the    *)
(* worker processes of the ProcessPoolExecutor, and the reassembly of      *)
(* their results into the KN table.                                        *)

\* the fast-path points that pass, and that fail, the residual test
fsolve_aceitos(volume, theta) ==
    {p \in fsolve_resultados(volume, theta) : residuo_aceito(p, volume)}

fsolve_rejeitados(volume, theta) ==
    {p \in fsolve_resultados(volume, theta) : ~residuo_aceito(p, volume)}

\* the values calcular_kn_para_ponto can return for one grid point: the
\* sequential process above run from its call to its return
resultados_do_ponto(d, a) ==
    LET volume == d \div Densidade
    IN  IF caso_trivial(volume, a) THEN {KnZero}
        ELSE IF objetivo_levanta(a) THEN {tratar_falha_brentq[2]}
        ELSE {KnDe(a, p) : p \in fsolve_aceitos(volume, a)}
             \cup (IF fsolve_rejeitados(volume, a) = {} THEN {}
                   ELSE IF TabelaBrentq[volume, a] = {}
                        THEN {tratar_falha_brentq[2]}
                        ELSE {KnDe(a, p) : p \in TabelaBrentq[volume, a]})

\* calcular_kn_worker: the tuple (desloc, angulo, kn) of one task
calcular_kn_worker(tarefa) ==
    {<<tarefa[1], tarefa[2], kn>> :
        kn \in resultados_do_ponto(tarefa[1], tarefa[2])}

\* volumes of the displacements offered to the grid
VolumesDaGrade == {0, MaxVolume \div 4, MaxVolume \div 2, MaxVolume}

\* gerar_lista_deslocamentos / gerar_lista_angulos return sorted lists
\* without repetitions of values >= 0 (list_utils.py lines 83 and 121)
ListasDeslocamentos ==
    {<<Densidade * v>> : v \in VolumesDaGrade}
    \cup {<<Densidade * v, Densidade * w>> :
            <<v, w>> \in {vw \in VolumesDaGrade \X VolumesDaGrade :
                            vw[1] < vw[2]}}

ListasAngulos == {<<>>, <<45>>, <<0, 45>>, <<45, 90>>}

\* itertools.product(lista_deslocamentos, lista_angulos), as a list
produto(ds, as) ==
    [k \in 1..(Len(ds) * Len(as)) |->
        <<ds[((k - 1) \div Len(as)) + 1], as[((k - 1) % Len(as)) + 1]>>]

Pendente == <<>>

InitKN ==
    /\ PurezaInicial
    /\ HidroInicial
    /\ IntegrarInicial
    /\ NovosIniciais
    /\ ZcInicial
    /\ TrimInicial
    /\ CascoInicial
    /\ RaizesInicial
    /\ pcKN = "ocioso"
    /\ lista_deslocamentos \in ListasDeslocamentos
    /\ lista_angulos \in ListasAngulos
    /\ tarefas = <<>>
    /\ resultado_worker = <<>>
    /\ ordem_conclusao = <<>>
    /\ tabela_kn = <<>>
    /\ excecao_kn = FALSE

\* lines 694-704: the task list is built and handed to the executor
calcular_curvas_kn ==
    /\ pcKN = "ocioso"
    /\ tarefas' = produto(lista_deslocamentos, lista_angulos)
    /\ resultado_worker' =
          [k \in 1..(Len(lista_deslocamentos) * Len(lista_angulos)) |->
              Pendente]
    /\ pcKN' = "executando"
    /\ UNCHANGED <<lista_deslocamentos, lista_angulos, ordem_conclusao,
                   tabela_kn, excecao_kn>>
    /\ UNCHANGED <<varsZc, varsTrim, varsCasco, varsRaizes,
                   varsPureza, varsHidro, varsIntegrar,
                   varsNovos>>

\* one worker process finishes its task; tasks finish in any order
worker_conclui(k) ==
    /\ pcKN = "executando"
    /\ resultado_worker[k] = Pendente
    /\ \E r \in calcular_kn_worker(tarefas[k]) :
          resultado_worker' = [resultado_worker EXCEPT ![k] = r]
    /\ ordem_conclusao' = Append(ordem_conclusao, k)
    /\ UNCHANGED <<pcKN, lista_deslocamentos, lista_angulos, tarefas,
                   tabela_kn, excecao_kn>>
    /\ UNCHANGED <<varsZc, varsTrim, varsCasco, varsRaizes,
                   varsPureza, varsHidro, varsIntegrar,
                   varsNovos>>

\* rows of a table assembled from the task list and the values in the order
\* in which the workers finished
linhas_por_chegada(tars, res, ordem) ==
    [k \in DOMAIN res |-> <<tars[k][1], tars[k][2], res[ordem[k]][3]>>]

\* lines 703-704 and 714: executor.map yields the workers' tuples in the
\* order of the tasks, and each row of df_kn_flat is one worker's tuple
linhas_da_tabela(tars, res, ordem) ==
    [k \in DOMAIN res |-> res[k]]

\* a pivot that leaves out the rows whose value is NaN
pivot_sem_nan(linhas) ==
    LET validas == {k \in DOMAIN linhas : linhas[k][3] # KnNaN}
        chaves == {<<linhas[k][1], linhas[k][2]>> : k \in validas}
    IN  [erro |-> FALSE,
         celulas |-> [c \in chaves |->
                        linhas[CHOOSE k \in validas :
                                 <<linhas[k][1], linhas[k][2]>> = c][3]]]

\* line 715, DataFrame.pivot(index='Deslocamento', columns='Angulo',
\* values='KN'): one cell per (index, column) pair of the rows; pandas
\* raises ValueError when two rows have the same pair
pivot(linhas) ==
    LET chaves == {<<linhas[k][1], linhas[k][2]>> : k \in DOMAIN linhas}
    IN  IF \E j, k \in DOMAIN linhas :
              /\ j # k
              /\ linhas[j][1] = linhas[k][1]
              /\ linhas[j][2] = linhas[k][2]
        THEN [erro |-> TRUE, celulas |-> <<>>]
        ELSE [erro |-> FALSE,
              celulas |-> [c \in chaves |->
                             linhas[CHOOSE k \in DOMAIN linhas :
                                      <<linhas[k][1], linhas[k][2]>> = c][3]]]

\* lines 704-718: all workers have finished; the results are collected and
\* pivoted (an empty result list gives an empty DataFrame, lines 710-712)
montar_tabela ==
    /\ pcKN = "executando"
    /\ \A k \in DOMAIN resultado_worker : resultado_worker[k] # Pendente
    /\ LET linhas == linhas_da_tabela(tarefas, resultado_worker,
                                      ordem_conclusao)
           tab == pivot(linhas)
       IN  IF Len(resultado_worker) = 0
           THEN /\ tabela_kn' = <<>>
                /\ pcKN' = "pronto"
                /\ UNCHANGED excecao_kn
           ELSE IF tab.erro
           THEN /\ excecao_kn' = TRUE
                /\ pcKN' = "abortado"
                /\ UNCHANGED tabela_kn
           ELSE /\ tabela_kn' = tab.celulas
                /\ pcKN' = "pronto"
                /\ UNCHANGED excecao_kn
    /\ UNCHANGED <<lista_deslocamentos, lista_angulos, tarefas,
                   resultado_worker, ordem_conclusao>>
    /\ UNCHANGED <<varsZc, varsTrim, varsCasco, varsRaizes,
                   varsPureza, varsHidro, varsIntegrar,
                   varsNovos>>

NextKN ==
    \/ calcular_curvas_kn
    \/ \E k \in DOMAIN resultado_worker : worker_conclui(k)
    \/ montar_tabela

SpecKN == InitKN /\ [][NextKN]_vars


----------------------------------------------------------------------------
(* The trim/sinkage loops: CalculadoraEED.calcular_hidrostaticas_condicoes *)
(* (one loading condition) and CalculadoraRPI.                             *)
(* calcular_hidrostaticos_navio_leve.  Drafts and longitudinal positions   *)
(* are millimetres, displacements kilograms, volumes litres (m2 x mm); the *)
(* float operations of the draft update are fixed-point operations.        *)

max_iteracoes == 100

\* 1 / tolerancia, tolerancia = 1e-4
tolerancia_inv == 10000

\* density of the water of the condition, kg per litre
densidade_condicao == 1

lpp_mm == 1000 * Lpp
pontal_mm == 1000 * Pontal

\* the keel line z = 0 meets the trimmed waterline inside [0, Lpp]: both
\* fsolve searches of _calcular_dimensoes_linha_dagua end at that crossing
\* and x_re = x_vante
cruza_quilha(re, vante) ==
    /\ re # vante
    /\ \/ re <= 0 /\ vante >= 0
       \/ re >= 0 /\ vante <= 0

\* _calcular_area_secao: the half-breadth curve (0 outside [0, Pontal]) is
\* integrated from the keel to the station's draft, when that is above the
\* keel
altura_molhada(calado) == IF calado > 0 THEN Min(calado, pontal_mm) ELSE 0

\* _obter_meia_boca at the station's draft
meia_boca_wl(calado) ==
    IF 0 <= calado /\ calado <= pontal_mm THEN MeiaBoca ELSE 0

\* PropriedadesTrim and PropriedadesHidrostaticas(prop_trim=...) of the box
\* with stations x = 0 and x = Lpp: deslocamento [kg], lcb and lcf [mm],
\* tpc100 = 100 * tpc [kg/mm], and 100 * mtc = mtc_num / mtc_den
PropriedadesHidrostaticas(re, vante) ==
    LET t0 == altura_molhada(re)
        tL == altura_molhada(vante)
        y0 == meia_boca_wl(re)
        yL == meia_boca_wl(vante)
        volume == Lpp * MeiaBoca * (t0 + tL)
        awp == Lpp * (y0 + yL)
    IN  IF cruza_quilha(re, vante)
        THEN [deslocamento |-> 0, lcb |-> 0, lcf |-> 0, tpc100 |-> 0,
              mtc_num |-> 0, mtc_den |-> 1]
        ELSE [deslocamento |-> volume * densidade_condicao,
              lcb |-> IF volume = 0 THEN 0
                      ELSE (lpp_mm * (t0 + 2 * tL)) \div (3 * (t0 + tL)),
              lcf |-> IF awp = 0 THEN 0
                      ELSE (lpp_mm * (y0 + 2 * yL)) \div (3 * (y0 + yL)),
              tpc100 |-> awp * densidade_condicao,
              mtc_num |-> IF awp = 0 THEN 0
                          ELSE Lpp * Lpp * (y0 * y0 + 4 * y0 * yL + yL * yL)
                                   * densidade_condicao,
              mtc_den |-> IF awp = 0 THEN 1 ELSE 18 * (y0 + yL)]

\* abs(erro_desloc) < tolerancia; the RPI routine takes the error as 0 when
\* the target is 0 (rpi.py line 708)
erro_desloc_pequeno(rot, desloc_calc, alvo) ==
    IF rot = "rpi" /\ alvo = 0 THEN TRUE
    ELSE tolerancia_inv * Abs(desloc_calc - alvo) < alvo

\* abs(erro_lcg) < tolerancia, erro_lcg = (lcb_calc - lcg_alvo) / lpp
erro_lcg_pequeno(lcb_calc, lcg) ==
    tolerancia_inv * Abs(lcb_calc - lcg) < lpp_mm

\* a test that is satisfied by either error alone
convergiu_um_dos_dois(rot, props, alvo, lcg) ==
    \/ erro_desloc_pequeno(rot, props.deslocamento, alvo)
    \/ erro_lcg_pequeno(props.lcb, lcg)

\* eed.py line 297, rpi.py line 714
convergiu(rot, props, alvo, lcg) ==
    /\ erro_desloc_pequeno(rot, props.deslocamento, alvo)
    /\ erro_lcg_pequeno(props.lcb, lcg)

\* trim_necessario = momento_trimante / (mtc_calc * 100) if mtc_calc else 0
trim_necessario(props, alvo, lcg) ==
    IF props.mtc_num = 0 THEN 0
    ELSE (((alvo * props.mtc_den) \div props.mtc_num) * (lcg - props.lcb))
            \div 1000

\* a mean-draft correction that takes a missing TPC as 0.01 t/cm
correcao_calado_medio_sem_guarda(props, alvo) ==
    (alvo - props.deslocamento) \div Max(props.tpc100, 1)

\* correcao_calado_medio = (desloc_alvo - desloc_calc) / (tpc * 100)
\* if tpc else 0
correcao_calado_medio(props, alvo) ==
    IF props.tpc100 = 0 THEN 0
    ELSE (alvo - props.deslocamento) \div props.tpc100

\* a draft update that gives the whole trim to the forward draft
proximos_calados_sem_lcf(re, vante, props, alvo, lcg) ==
    LET trim == trim_necessario(props, alvo, lcg)
        corr == correcao_calado_medio(props, alvo)
    IN  <<re + corr, vante + trim + corr>>

\* eed.py lines 336-343, rpi.py lines 739-748: the next draft pair
proximos_calados(re, vante, props, alvo, lcg) ==
    LET trim == trim_necessario(props, alvo, lcg)
        parte_re == (trim * props.lcf) \div lpp_mm
        corr == correcao_calado_medio(props, alvo)
    IN  <<re - parte_re + corr, vante + (trim - parte_re) + corr>>

\* a loop that makes one more pass
laco_continua_mais_um(n) == n <= max_iteracoes

\* for i in range(max_iteracoes)
laco_continua(n) == n < max_iteracoes

Vazio == <<>>

\* an exhausted loop that keeps its last draft pair, marked not converged
ao_esgotar_guarda(res, re, vante) ==
    [calado_re |-> re, calado_vante |-> vante, convergiu |-> FALSE]

\* the for-else of eed.py (lines 344-345) and the last line of the RPI
\* routine (rpi.py line 750) print a warning; the stored result is whatever
\* it was
ao_esgotar(res, re, vante) == res

\* target displacements [kg]: zero, fractions of the box, and one above the
\* volume of the whole box
DeslocamentosAlvo ==
    LET casco == 2 * MeiaBoca * Lpp * pontal_mm * densidade_condicao
    IN  {0, casco \div 4, casco \div 2, (casco \div 2) + 1, casco,
         casco + 100 * MeiaBoca * Lpp}

\* target LCG positions [mm]
LcgAlvos == {0, lpp_mm \div 2, (lpp_mm \div 2) + 100, (lpp_mm \div 2) - 333}

\* light-ship displacements [kg] of the EED calculator
DeslocamentosLeves == {0, 50000}

\* eed.py line 271: (desloc_alvo / (deslocamento_leve + 100 t)) * pontal *
\* 0.8; rpi.py lines 679-680: the mean draft of the inclining test
calado_estimado(rot, alvo, leve) ==
    IF rot = "rpi" THEN pontal_mm \div 2
    ELSE (((alvo * 8) \div 10) * pontal_mm) \div (leve + 100000)

InitTrim ==
    /\ PurezaInicial
    /\ HidroInicial
    /\ IntegrarInicial
    /\ NovosIniciais
    /\ ZcInicial
    /\ KnInicial
    /\ CascoInicial
    /\ RaizesInicial
    /\ pcTrim = "ocioso"
    /\ rotina \in {"eed", "rpi"}
    /\ desloc_alvo \in DeslocamentosAlvo
    /\ lcg_alvo \in LcgAlvos
    \* rpi.py lines 636-639: a zero light-ship displacement has LCG 0
    /\ (rotina = "rpi" /\ desloc_alvo = 0) => lcg_alvo = 0
    /\ calado_re_atual = 0
    /\ calado_vante_atual = 0
    /\ avaliacoes = 0
    /\ resultado_flutuacao = Vazio

\* eed.py lines 259-273, rpi.py lines 669-681: the targets are read and the
\* drafts get their first estimate; the EED loop skips a condition of zero
\* displacement
iniciar_calculo ==
    /\ pcTrim = "ocioso"
    /\ IF rotina = "eed" /\ desloc_alvo = 0
       THEN /\ pcTrim' = "pulou"
            /\ UNCHANGED <<calado_re_atual, calado_vante_atual>>
       ELSE /\ \E leve \in DeslocamentosLeves :
                 /\ calado_re_atual' =
                       calado_estimado(rotina, desloc_alvo, leve)
                 /\ calado_vante_atual' =
                       calado_estimado(rotina, desloc_alvo, leve)
            /\ pcTrim' = "laco"
    /\ UNCHANGED <<rotina, desloc_alvo, lcg_alvo, avaliacoes,
                   resultado_flutuacao>>
    /\ UNCHANGED <<varsZc, varsKN, varsCasco, varsRaizes,
                   varsPureza, varsHidro, varsIntegrar,
                   varsNovos>>

\* one pass of the loop body, eed.py lines 278-343, rpi.py lines 686-748
iterar ==
    /\ pcTrim = "laco"
    /\ laco_continua(avaliacoes)
    /\ avaliacoes' = avaliacoes + 1
    /\ LET props == PropriedadesHidrostaticas(calado_re_atual,
                                              calado_vante_atual)
           prox == proximos_calados(calado_re_atual, calado_vante_atual,
                                    props, desloc_alvo, lcg_alvo)
       IN  IF convergiu(rotina, props, desloc_alvo, lcg_alvo)
           THEN /\ resultado_flutuacao' =
                      [calado_re |-> calado_re_atual,
                       calado_vante |-> calado_vante_atual,
                       deslocamento |-> props.deslocamento,
                       lcb |-> props.lcb]
                /\ pcTrim' = "convergiu"
                /\ UNCHANGED <<calado_re_atual, calado_vante_atual>>
           ELSE /\ calado_re_atual' = prox[1]
                /\ calado_vante_atual' = prox[2]
                /\ UNCHANGED <<pcTrim, resultado_flutuacao>>
    /\ UNCHANGED <<rotina, desloc_alvo, lcg_alvo>>
    /\ UNCHANGED <<varsZc, varsKN, varsCasco, varsRaizes,
                   varsPureza, varsHidro, varsIntegrar,
                   varsNovos>>

\* the loop is exhausted: eed.py lines 344-345, rpi.py line 750
esgotar_iteracoes ==
    /\ pcTrim = "laco"
    /\ ~laco_continua(avaliacoes)
    /\ resultado_flutuacao' =
          ao_esgotar(resultado_flutuacao, calado_re_atual,
                     calado_vante_atual)
    /\ pcTrim' = "nao_convergiu"
    /\ UNCHANGED <<rotina, desloc_alvo, lcg_alvo, calado_re_atual,
                   calado_vante_atual, avaliacoes>>
    /\ UNCHANGED <<varsZc, varsKN, varsCasco, varsRaizes,
                   varsPureza, varsHidro, varsIntegrar,
                   varsNovos>>

NextTrim ==
    \/ iniciar_calculo
    \/ iterar
    \/ esgotar_iteracoes

\* the loop is sequential code: a pass that can run does run
SpecTrim == InitTrim /\ [][NextTrim]_vars /\ WF_vars(NextTrim)


----------------------------------------------------------------------------
(* The hull geometry pipeline of main.py (lines 44-69):                    *)
(* FileHandler.processar_dados_balizas cleans and validates the offset     *)
(* table, InterpoladorCasco is then built from the processed table.        *)
(* Raw coordinates are multiples of 0.00004 m, processed coordinates       *)
(* multiples of 0.0001 m.  A table is the set of its rows: rows that are   *)
(* equal are dropped by drop_duplicates in any case.                       *)

MaxPontos == 5

\* df.round(4): the nearest multiple of 0.0001 m of n * 0.00004 m
arredondar_4(n) == (4 * n + 5) \div 10

\* lpp / 2 in raw units
meio_lpp_bruto == 12500 * Lpp

\* raw rows: three stations after rounding (raw x = 2 and x = 3 are one
\* station), heights 0 and 0.0001 m (raw z = 2 and z = 3 are one height)
LinhasBrutas ==
    {[x |-> x, y |-> 5, z |-> z] : x \in {0, 2, 3, 5}, z \in {0, 2, 3}}
    \cup {[x |-> x, y |-> 0, z |-> 0] : x \in {0, 2, 3, 5}}

\* steps 1-3 of processar_dados_balizas (lines 66-77): sort by x, shift x
\* to midship when asked, round to 4 decimals, drop repeated rows
limpar(tab, ref) ==
    {[x |-> arredondar_4(IF ref = "Meio-navio" THEN r.x - meio_lpp_bruto
                         ELSE r.x),
      y |-> arredondar_4(r.y),
      z |-> arredondar_4(r.z)] : r \in tab}

\* df['x'].value_counts()
contagem_pontos(df) ==
    [x \in {r.x : r \in df} |-> Cardinality({r \in df : r.x = x})]

\* lines 82-94: with more than one station, the stations other than the
\* first and the last that have fewer than 2 points
estacoes_problematicas(contagem) ==
    IF Cardinality(DOMAIN contagem) > 1
    THEN {x \in DOMAIN contagem :
            /\ contagem[x] < 2
            /\ \E w \in DOMAIN contagem : w < x
            /\ \E w \in DOMAIN contagem : w > x}
    ELSE {}

TabelasBrutas ==
    {tab \in SUBSET LinhasBrutas : Cardinality(tab) <= MaxPontos}

InitCasco ==
    /\ PurezaInicial
    /\ HidroInicial
    /\ IntegrarInicial
    /\ NovosIniciais
    /\ ZcInicial
    /\ KnInicial
    /\ TrimInicial
    /\ RaizesInicial
    /\ pcCasco = "ocioso"
    /\ tabela_cotas \in TabelasBrutas
    /\ referencial_saida \in {"Perpendicular", "Meio-navio"}
    /\ metodo_interp \in {"linear", "pchip"}
    /\ tabela_processada = {}
    /\ funcoes_baliza = {}
    /\ erro_casco = "nenhum"

\* FileHandler.processar_dados_balizas, called at main.py line 48; its
\* ValueError is caught at main.py line 55 and ends the run
processar_dados_balizas ==
    /\ pcCasco = "ocioso"
    /\ LET df == limpar(tabela_cotas, referencial_saida)
       IN  IF estacoes_problematicas(contagem_pontos(df)) # {}
           THEN /\ erro_casco' = "ValueError"
                /\ pcCasco' = "falhou"
                /\ UNCHANGED tabela_processada
           ELSE /\ tabela_processada' = df
                /\ pcCasco' = "processado"
                /\ UNCHANGED erro_casco
    /\ UNCHANGED <<tabela_cotas, referencial_saida, metodo_interp,
                   funcoes_baliza>>
    /\ UNCHANGED <<varsZc, varsKN, varsTrim, varsRaizes,
                   varsPureza, varsHidro, varsIntegrar,
                   varsNovos>>

\* _gerar_interpoladores_secao: the stations with more than one point get
\* an interpolator, the others are left out
_gerar_interpoladores_secao(df) ==
    {x \in {r.x : r \in df} : Cardinality({r \in df : r.x = x}) > 1}

\* PchipInterpolator raises ValueError unless the heights of the station
\* are strictly increasing; interp1d accepts any two points or more
interpolador_levanta(df, metodo) ==
    /\ metodo = "pchip"
    /\ \E r, q \in df : r # q /\ r.x = q.x /\ r.z = q.z

\* InterpoladorCasco.__init__, called at main.py line 67
InterpoladorCasco ==
    /\ pcCasco = "processado"
    /\ IF interpolador_levanta(tabela_processada, metodo_interp)
       THEN /\ erro_casco' = "ValueError"
            /\ pcCasco' = "falhou"
            /\ UNCHANGED funcoes_baliza
       ELSE /\ funcoes_baliza' =
                  _gerar_interpoladores_secao(tabela_processada)
            /\ pcCasco' = "construido"
            /\ UNCHANGED erro_casco
    /\ UNCHANGED <<tabela_cotas, referencial_saida, metodo_interp,
                   tabela_processada>>
    /\ UNCHANGED <<varsZc, varsKN, varsTrim, varsRaizes,
                   varsPureza, varsHidro, varsIntegrar,
                   varsNovos>>

NextCasco ==
    \/ processar_dados_balizas
    \/ InterpoladorCasco

SpecCasco == InitCasco /\ [][NextCasco]_vars


----------------------------------------------------------------------------
(* PropriedadesCruzadas._encontrar_raizes (cc.py lines 47-100) for a       *)
(* function known by its values at the sample points.  Sample i is at      *)
(* x = 2 * (i - 1); a root strictly inside an interval is at its odd       *)
(* midpoint.  A sample value is negative, zero, positive or NaN.           *)

NumPontos == 4

ValoresAmostra == {"neg", "zero", "pos", "nan"}

pontos_x(i) == 2 * (i - 1)

\* np.sign(v1) != np.sign(v2): NaN differs from everything, itself included
sinais_diferem(v1, v2) == v1 = "nan" \/ v2 = "nan" \/ v1 # v2

\* a root as brentq returns it (a float) and as fsolve returns it (an
\* ndarray of one element: line 92 takes no [0]); a call that raises
\* ValueError or RuntimeError
RaizFloat(v) == [tipo |-> "float", valor |-> v]
RaizArray(v) == [tipo |-> "ndarray", valor |-> v]
Levanta == [tipo |-> "levanta", valor |-> 0]

\* brentq(funcao, a, b) on an interval whose end values differ in sign:
\* ValueError when an end value is NaN, an end point whose value is zero,
\* otherwise a root strictly inside
brentq_intervalo(vals, i) ==
    IF vals[i] = "nan" \/ vals[i + 1] = "nan" THEN Levanta
    ELSE IF vals[i] = "zero" THEN RaizFloat(pontos_x(i))
    ELSE IF vals[i + 1] = "zero" THEN RaizFloat(pontos_x(i + 1))
    ELSE RaizFloat(pontos_x(i) + 1)

\* fsolve(funcao, x0 = midpoint): the last iterate, whatever the
\* convergence, or the ValueError / RuntimeError it lets through.  The
\* search is not confined to the interval: the iterate is a point of it,
\* a point beyond its upper end or a point beyond the search interval
fsolve_intervalo(i) ==
    {Levanta} \cup {RaizArray(v) : v \in {pontos_x(i), pontos_x(i) + 1,
                                          pontos_x(i + 1) + 1,
                                          pontos_x(NumPontos) + 1}}

\* the list after the pass of the loop over interval i (lines 84-97)
apos_intervalo(lista, vals, i, fs) ==
    IF ~sinais_diferem(vals[i], vals[i + 1]) THEN lista
    ELSE IF brentq_intervalo(vals, i) # Levanta
         THEN Append(lista, brentq_intervalo(vals, i))
    ELSE IF fs # Levanta THEN Append(lista, fs)
    ELSE lista

\* sorted(list(set(raizes))) of floats
ordenar_sem_repeticao(lista) ==
    LET valores == {lista[k].valor : k \in DOMAIN lista}
        ordem == CHOOSE f \in [1..Cardinality(valores) -> valores] :
                    \A j, k \in 1..Cardinality(valores) :
                        j < k => f[j] < f[k]
    IN  ordem

\* set(raizes) raises TypeError when an element is an ndarray (unhashable)
set_levanta(lista) == \E k \in DOMAIN lista : lista[k].tipo = "ndarray"

InitRaizes ==
    /\ PurezaInicial
    /\ HidroInicial
    /\ IntegrarInicial
    /\ NovosIniciais
    /\ ZcInicial
    /\ KnInicial
    /\ TrimInicial
    /\ CascoInicial
    /\ pcRaizes = "ocioso"
    /\ valores_f \in [1..NumPontos -> ValoresAmostra]
    /\ indice = 0
    /\ raizes_encontradas = <<>>
    /\ raizes_retornadas = <<>>
    /\ excecao_raizes = FALSE

\* lines 80-82: the samples are taken and the list starts empty
_encontrar_raizes ==
    /\ pcRaizes = "ocioso"
    /\ indice' = 1
    /\ pcRaizes' = "laco"
    /\ UNCHANGED <<valores_f, raizes_encontradas, raizes_retornadas,
                   excecao_raizes>>
    /\ UNCHANGED <<varsZc, varsKN, varsTrim, varsCasco,
                   varsPureza, varsHidro, varsIntegrar,
                   varsNovos>>

\* lines 84-97: one pass of the loop over the intervals
examinar_intervalo ==
    /\ pcRaizes = "laco"
    /\ indice <= NumPontos - 1
    /\ \E fs \in fsolve_intervalo(indice) :
          raizes_encontradas' =
              apos_intervalo(raizes_encontradas, valores_f, indice, fs)
    /\ indice' = indice + 1
    /\ UNCHANGED <<pcRaizes, valores_f, raizes_retornadas, excecao_raizes>>
    /\ UNCHANGED <<varsZc, varsKN, varsTrim, varsCasco,
                   varsPureza, varsHidro, varsIntegrar,
                   varsNovos>>

\* line 100: return sorted(list(set(raizes)))
retornar_raizes ==
    /\ pcRaizes = "laco"
    /\ indice = NumPontos
    /\ IF set_levanta(raizes_encontradas)
       THEN /\ excecao_raizes' = TRUE
            /\ pcRaizes' = "abortou"
            /\ UNCHANGED raizes_retornadas
       ELSE /\ raizes_retornadas' =
                  ordenar_sem_repeticao(raizes_encontradas)
            /\ pcRaizes' = "retornou"
            /\ UNCHANGED excecao_raizes
    /\ UNCHANGED <<valores_f, indice, raizes_encontradas>>
    /\ UNCHANGED <<varsZc, varsKN, varsTrim, varsCasco,
                   varsPureza, varsHidro, varsIntegrar,
                   varsNovos>>

NextRaizes ==
    \/ _encontrar_raizes
    \/ examinar_intervalo
    \/ retornar_raizes

SpecRaizes == InitRaizes /\ [][NextRaizes]_vars


----------------------------------------------------------------------------
(* PropriedadesCruzadas as an object: the hull geometry it holds           *)
(* (self.casco), the mirrored interpolants it builds once                  *)
(* (self.funcoes_baliza_bb), and the computations that read them.          *)

Estacoes == {0, Lpp}

\* InterpoladorCasco: the station list, the stations that have an
\* interpolant (those with more than one point) and the keel profile
Geometria(comInterpolador) ==
    [posicoes_balizas |-> <<0, Lpp>>,
     funcoes_baliza |-> comInterpolador,
     funcao_perfil |-> TRUE]

\* _gerar_interpoladores_bombordo: for each station with an interpolant,
\* the lambda that negates that station's interpolant (interp = interp_be
\* binds it when the lambda is created)
_gerar_interpoladores_bombordo(geo) == [x \in geo.funcoes_baliza |-> x]

\* waterline heights and heel angles of the calls
ZcsDasChamadas == {Fino(-1), Fino(1)}
AngulosDasChamadas == {45, -45}

SecaoNula == [be |-> -1, bb |-> -1, valores |-> LadoNulo]

\* a section computation that keeps the result of its last call and
\* returns it again for the same station
secao_com_memoria(x, zc, theta) ==
    IF ultima_chamada # <<>> /\ ultima_chamada[1] = x
    THEN ultimo_resultado
    ELSE IF x \in casco_geo.funcoes_baliza /\ x \in DOMAIN funcoes_baliza_bb
         THEN [be |-> x, bb |-> funcoes_baliza_bb[x],
               valores |-> momentos_secao_inclinada(zc, theta)]
         ELSE SecaoNula

\* _calcular_propriedades_secao_inclinada on the object: the two
\* interpolants are looked up (lines 425-428) and the sides computed from
\* them; a station without interpolant gives (0, 0, 0)
secao_do_objeto(x, zc, theta) ==
    IF x \in casco_geo.funcoes_baliza /\ x \in DOMAIN funcoes_baliza_bb
    THEN [be |-> x, bb |-> funcoes_baliza_bb[x],
          valores |-> momentos_secao_inclinada(zc, theta)]
    ELSE SecaoNula

\* _calcular_propriedades_para_zc_inclinado on the object: trapezoid of the
\* section areas over self.casco.posicoes_balizas
volume_do_objeto(zc, theta) ==
    (Lpp * (secao_do_objeto(0, zc, theta).valores.area
            + secao_do_objeto(Lpp, zc, theta).valores.area)) \div 2

InitPureza ==
    /\ ZcInicial
    /\ KnInicial
    /\ TrimInicial
    /\ CascoInicial
    /\ RaizesInicial
    /\ HidroInicial
    /\ IntegrarInicial
    /\ NovosIniciais
    /\ pcPureza = "ocioso"
    /\ casco_geo \in {Geometria(s) : s \in SUBSET Estacoes}
    /\ funcoes_baliza_bb = {}
    /\ ultima_chamada = <<>>
    /\ ultimo_resultado = <<>>
    /\ historico = <<>>
    /\ chamada_repetida = FALSE
    /\ ultimo_volume = <<>>

\* PropriedadesCruzadas.__init__, lines 29-31
construir_propriedades_cruzadas ==
    /\ pcPureza = "ocioso"
    /\ funcoes_baliza_bb' = _gerar_interpoladores_bombordo(casco_geo)
    /\ pcPureza' = "construido"
    /\ UNCHANGED <<casco_geo, ultima_chamada, ultimo_resultado, historico,
                   chamada_repetida, ultimo_volume>>
    /\ UNCHANGED <<varsZc, varsKN, varsTrim, varsCasco, varsRaizes,
                   varsHidro, varsIntegrar,
                   varsNovos>>

\* one call of _calcular_propriedades_secao_inclinada(x_pos, zc, theta)
chamar_secao_inclinada(x, zc, theta) ==
    /\ pcPureza = "construido"
    /\ ultima_chamada' = <<x, zc, theta>>
    /\ ultimo_resultado' = secao_do_objeto(x, zc, theta)
    /\ chamada_repetida' = (<<x, zc, theta>> \in DOMAIN historico)
    /\ historico' =
          IF <<x, zc, theta>> \in DOMAIN historico THEN historico
          ELSE historico @@ (<<x, zc, theta>> :> secao_do_objeto(x, zc, theta))
    /\ UNCHANGED <<pcPureza, casco_geo, funcoes_baliza_bb, ultimo_volume>>
    /\ UNCHANGED <<varsZc, varsKN, varsTrim, varsCasco, varsRaizes,
                   varsHidro, varsIntegrar,
                   varsNovos>>

\* one call of _calcular_propriedades_para_zc_inclinado(zc, theta), which
\* runs the section computation at every station
chamar_para_zc_inclinado(zc, theta) ==
    /\ pcPureza = "construido"
    /\ ultimo_volume' = <<"volume", zc, theta, volume_do_objeto(zc, theta)>>
    /\ UNCHANGED <<pcPureza, casco_geo, funcoes_baliza_bb, ultima_chamada,
                   ultimo_resultado, historico, chamada_repetida>>
    /\ UNCHANGED <<varsZc, varsKN, varsTrim, varsCasco, varsRaizes,
                   varsHidro, varsIntegrar,
                   varsNovos>>

\* one call of _encontrar_zc_para_volume / calcular_kn_para_ponto: the
\* solver evaluates the volume at the waterlines it tries and ends at one
\* of them
chamar_encontrar_zc(theta) ==
    /\ pcPureza = "construido"
    /\ \E zc \in ZcsDasChamadas :
          ultimo_volume' = <<"kn", zc, theta, volume_do_objeto(zc, theta)>>
    /\ UNCHANGED <<pcPureza, casco_geo, funcoes_baliza_bb, ultima_chamada,
                   ultimo_resultado, historico, chamada_repetida>>
    /\ UNCHANGED <<varsZc, varsKN, varsTrim, varsCasco, varsRaizes,
                   varsHidro, varsIntegrar,
                   varsNovos>>

NextPureza ==
    \/ construir_propriedades_cruzadas
    \/ \E x \in Estacoes, zc \in ZcsDasChamadas, theta \in AngulosDasChamadas :
          chamar_secao_inclinada(x, zc, theta)
    \/ \E zc \in ZcsDasChamadas, theta \in AngulosDasChamadas :
          chamar_para_zc_inclinado(zc, theta)
    \/ \E theta \in AngulosDasChamadas : chamar_encontrar_zc(theta)

SpecPureza == InitPureza /\ [][NextPureza]_vars


----------------------------------------------------------------------------
(* Claims about the waterline-for-volume solver.                           *)

\* C1: every call with target volume V* > 0 that returns a non-NaN
\* waterline, from the fast path or from the bracketed fallback, returns one
\* at which the recomputed volume satisfies |volume - V*| <= 0.01 * V*.
C1_ToleranciaNoRetorno ==
    (pc = "retornou" /\ kn_valor.tipo = "valor" /\ volume_desejado > 0)
        => 100 * Abs(volume_final - 2 * volume_desejado) <= 2 * volume_desejado

\* C2: the bracketed fallback starts only after the fast solve raised or
\* returned a waterline whose residual is not below 1% of V*; a fast-path
\* waterline whose residual is below 1% of V* becomes the solution and the
\* fallback is not run in that call.
C2_FallbackSoAposFalha ==
    [][ /\ (pc' = "brentq" /\ pc # "brentq") =>
              \/ pc = "fsolve" /\ objetivo_levanta(angulo_graus)
              \/ /\ pc = "residuo"
                 /\ ~(100 * Abs(zc_fsolve.vol - 2 * volume_desejado)
                        < 2 * volume_desejado)
        /\ (/\ pc = "residuo"
            /\ 100 * Abs(zc_fsolve.vol - 2 * volume_desejado)
                  < 2 * volume_desejado) =>
              /\ pc' = "final"
              /\ zc_solucao' = zc_fsolve
              /\ ~fallback_iniciado'
        /\ (fallback_iniciado' /\ ~fallback_iniciado) => pc = "brentq"
      ]_vars

C2_Testemunha ==
    /\ pc = "retornou"
    /\ kn_valor.tipo = "valor"
    /\ zc_solucao = zc_fsolve
    /\ ~fallback_iniciado
    /\ zc_solucao.vol # 2 * volume_desejado

\* C3: when the fast solve and the bracketed fallback both fail, the solver
\* returns a NaN waterline and calcular_kn_para_ponto returns NaN; no
\* exception raised by the volume objective escapes, at any heel angle.
C3_FalhaDuplaDaNaN ==
    /\ ~excecao
    /\ (/\ pc = "retornou"
        /\ fallback_iniciado
        /\ (\/ objetivo_levanta(angulo_graus)
            \/ TabelaBrentq[volume_desejado, angulo_graus] = {}))
          => (zc_solucao.nan /\ kn_valor = KnNaN)

C3_Testemunha ==
    /\ pc = "retornou"
    /\ fsolve_falhou
    /\ fallback_iniciado
    /\ ~objetivo_levanta(angulo_graus)
    /\ kn_valor = KnNaN

----------------------------------------------------------------------------
(* Claims about the KN grid.                                               *)

\* the (displacement, angle) pair of task k
ParDaTarefa(k) == <<tarefas[k][1], tarefas[k][2]>>

\* C4: in calcular_curvas_kn, a grid point whose equilibrium solve does not
\* converge puts NaN in its own (displacement, angle) cell only: the batch
\* is never aborted, it returns the full table, and every other cell holds
\* the value its own worker computed, one of the values that worker can
\* compute whatever happens at the failing point.
C4_NaNSoNaPropriaCelula ==
    /\ ~excecao_kn
    /\ pcKN # "abortado"
    /\ pcKN = "pronto" =>
          \A k \in DOMAIN resultado_worker :
              resultado_worker[k][3] = KnNaN =>
                  /\ ParDaTarefa(k) \in DOMAIN tabela_kn
                  /\ tabela_kn[ParDaTarefa(k)] = KnNaN
                  /\ \A j \in DOMAIN resultado_worker \ {k} :
                        /\ ParDaTarefa(j) \in DOMAIN tabela_kn
                        /\ tabela_kn[ParDaTarefa(j)] = resultado_worker[j][3]
                        /\ tabela_kn[ParDaTarefa(j)]
                              \in resultados_do_ponto(tarefas[j][1],
                                                      tarefas[j][2])

C4_Testemunha ==
    /\ pcKN = "pronto"
    /\ \E k, j \in DOMAIN resultado_worker :
          /\ resultado_worker[k][3] = KnNaN
          /\ resultado_worker[j][3].tipo = "valor"
          /\ tabela_kn[ParDaTarefa(j)].tipo = "valor"

\* C5: the returned KN table has exactly one cell for each (displacement,
\* angle) pair of the input grid, and the cell at (D, theta) holds the value
\* computed by the worker for that pair, in every order in which the workers
\* finish.
C5_UmaCelulaPorPar ==
    pcKN = "pronto" =>
        /\ DOMAIN tabela_kn =
              {<<lista_deslocamentos[i], lista_angulos[j]>> :
                  i \in DOMAIN lista_deslocamentos,
                  j \in DOMAIN lista_angulos}
        /\ Cardinality(DOMAIN tabela_kn) =
              Len(lista_deslocamentos) * Len(lista_angulos)
        /\ \A k \in DOMAIN resultado_worker :
              /\ resultado_worker[k][1] = tarefas[k][1]
              /\ resultado_worker[k][2] = tarefas[k][2]
              /\ tabela_kn[ParDaTarefa(k)] = resultado_worker[k][3]

C5_Testemunha ==
    /\ pcKN = "pronto"
    /\ Len(tarefas) = 4
    /\ ordem_conclusao = <<4, 2, 3, 1>>
    /\ tabela_kn[ParDaTarefa(1)] # tabela_kn[ParDaTarefa(4)]

----------------------------------------------------------------------------
(* Claims about the trim/sinkage loops.                                    *)

\* C6: every trim/sinkage solve terminates: it performs at most 100
\* hydrostatic evaluations of trial drafts and then ends, converged or
\* reporting non-convergence (or skipped, for a condition of zero
\* displacement), for every target displacement and LCG.
C6_LacoTermina ==
    /\ [](avaliacoes <= max_iteracoes)
    /\ <>(pcTrim \in {"convergiu", "nao_convergiu", "pulou"})

C6_Testemunha ==
    /\ pcTrim = "nao_convergiu"
    /\ avaliacoes = max_iteracoes
    /\ rotina = "eed"

----------------------------------------------------------------------------
(* Claims about the hull geometry.                                         *)

\* the stations of the cleaned offset table, and its points at a station
EstacoesLimpas == {r.x : r \in limpar(tabela_cotas, referencial_saida)}

PontosNaEstacao(x) ==
    {r \in limpar(tabela_cotas, referencial_saida) : r.x = x}

\* some station that is neither the first nor the last has fewer than 2
\* offset points
InteriorComMenosDeDois ==
    \E x \in EstacoesLimpas :
        /\ Cardinality(PontosNaEstacao(x)) < 2
        /\ \E w \in EstacoesLimpas : w < x
        /\ \E w \in EstacoesLimpas : w > x

\* C9: constructing the hull geometry from an offset table in which some
\* interior station (neither the first nor the last in x) has fewer than 2
\* offset points fails with an error and no InterpoladorCasco is built; a
\* table whose only single-point stations are the first and/or the last
\* station constructs successfully.  Offset points are the points of the
\* cleaned table (rounded to 4 decimals, repetitions dropped).
C9_FalhaSoPorBalizaInterior ==
    /\ (pcCasco # "ocioso" /\ InteriorComMenosDeDois) =>
          /\ pcCasco = "falhou"
          /\ erro_casco = "ValueError"
          /\ funcoes_baliza = {}
    /\ (pcCasco # "ocioso" /\ ~InteriorComMenosDeDois) =>
          /\ pcCasco \in {"processado", "construido"}
          /\ erro_casco = "nenhum"
    /\ pcCasco = "construido" =>
          funcoes_baliza =
              {x \in EstacoesLimpas : Cardinality(PontosNaEstacao(x)) >= 2}

----------------------------------------------------------------------------
(* Claims about the root finder.                                           *)

\* the intervals with a sign change whose refinement by brentq succeeds
IntervalosBons ==
    {i \in 1..(NumPontos - 1) :
        /\ sinais_diferem(valores_f[i], valores_f[i + 1])
        /\ brentq_intervalo(valores_f, i) # Levanta}

\* C10: in _encontrar_raizes a failure of the refinement in one sign-change
\* interval never aborts the search: the call returns normally, the failing
\* interval contributes no root, and the roots of every other interval are
\* returned exactly as they would be without the failing interval.
C10_FalhaNaoAbortaBusca ==
    /\ ~excecao_raizes
    /\ pcRaizes # "abortou"
    /\ pcRaizes = "retornou" =>
          {raizes_retornadas[k] : k \in DOMAIN raizes_retornadas}
              = {brentq_intervalo(valores_f, i).valor : i \in IntervalosBons}

\* the sample points whose value is zero and whose two neighbouring
\* intervals are both refined by brentq
AmostrasRaiz ==
    {i \in 2..(NumPontos - 1) :
        /\ valores_f[i] = "zero"
        /\ (i - 1) \in IntervalosBons
        /\ i \in IntervalosBons}

\* C11: for any function, _encontrar_raizes returns a list of roots in
\* strictly ascending order with no root repeated; a root that falls
\* exactly on a sample point, found by the intervals on both sides of it,
\* appears once.
C11_RaizesOrdenadasSemRepeticao ==
    pcRaizes \in {"retornou", "abortou"} =>
        /\ pcRaizes = "retornou"
        /\ \A j, k \in DOMAIN raizes_retornadas :
              j < k => raizes_retornadas[j] < raizes_retornadas[k]
        /\ \A i \in AmostrasRaiz :
              Cardinality({k \in DOMAIN raizes_retornadas :
                              raizes_retornadas[k] = pontos_x(i)}) = 1

----------------------------------------------------------------------------
(* Claims about the KN value of one point.                                 *)

\* C12: calcular_kn_para_ponto returns exactly 0 whenever the heel angle is
\* zero (|angle| < 1e-3 degrees) or the target volume
\* deslocamento / densidade is negligible (< 1e-3), and then neither the
\* first-guess interpolator nor the equilibrium solver is invoked.
C12_CasoTrivialSemSolver ==
    (/\ pc # "ocioso"
     /\ \/ 1000 * Abs(angulo_graus) < 1
        \/ 1000 * (deslocamento \div Densidade) < 1) =>
        /\ pc = "retornou"
        /\ kn_valor = KnZero
        /\ ~chute_chamado
        /\ zc_fsolve = ZcNaN
        /\ zc_solucao = ZcNaN
        /\ ~fsolve_falhou
        /\ ~fallback_iniciado
        /\ ~excecao

\* an upright call with a real displacement has returned
C12_Testemunha ==
    /\ pc = "retornou"
    /\ angulo_graus = 0
    /\ deslocamento = Densidade * (MaxVolume \div 2)
    /\ kn_valor = KnZero
    /\ ~chute_chamado

----------------------------------------------------------------------------
(* Claims about the symmetry of KN.                                        *)

\* KN = y_cb * cos(theta) + z_cb * sin(theta) at theta = +-45 degrees, as
\* the fraction KnNumerador / KnDenominador times cos(45) / 3; y_cb and
\* z_cb are 0 unless volume_final > 1e-6 (lines 592-593)
KnNumerador(theta, n) ==
    LET m == momentos_secao_inclinada(n, theta)
    IN  IF m.area <= 0 THEN 0
        ELSE IF theta > 0 THEN m.my + m.mz ELSE m.my - m.mz

KnDenominador(theta, n) ==
    LET m == momentos_secao_inclinada(n, theta)
    IN  IF m.area <= 0 THEN 1 ELSE m.area

\* the waterline of a KN value is a height of the grid (or just beside one)
NaGrade(k) == k.tipo = "valor" /\ k.zc = PontoEm(k.zc.fino, k.theta)

\* k2 = -k1; values whose waterline is strictly inside a cell of the grid
\* are not compared
Oposto(k1, k2) ==
    /\ k1.tipo = k2.tipo
    /\ (NaGrade(k1) /\ NaGrade(k2)) =>
          KnNumerador(k1.theta, k1.zc.fino) * KnDenominador(k2.theta, k2.zc.fino)
            = - KnNumerador(k2.theta, k2.zc.fino)
                * KnDenominador(k1.theta, k1.zc.fino)

\* the volume of the whole box
VolumeDoCasco == 2 * MeiaBoca * Pontal * Lpp

\* C13: for a hull symmetric about its centerline plane, every displacement
\* D > 0 and heel angle theta in the valid range,
\* calcular_kn_para_ponto(D, -theta) = -calcular_kn_para_ponto(D, theta):
\* the value a call returns is the opposite of a value the call with the
\* opposite angle returns.  The displacements are those the hull can carry.
C13_SimetriaKN ==
    (/\ pc = "retornou"
     /\ ~excecao
     /\ deslocamento > 0
     /\ volume_desejado < VolumeDoCasco
     /\ angulo_graus \in {45, -45}) =>
        \E k2 \in resultados_do_ponto(deslocamento, -angulo_graus) :
            Oposto(kn_valor, k2)

----------------------------------------------------------------------------
(* Claims about the section and the volume at a heeled waterline.          *)

\* the waterlines the solver has evaluated in the current call
PontosAvaliados == {p \in {zc_fsolve, zc_solucao} : ~p.nan}

\* C14: for every station and every waterline state (zc, theta) with zc
\* inside the solver's search interval and 0 < |theta| < 90 degrees, the
\* total section area returned by _calcular_propriedades_secao_inclinada
\* (the signed combination of the two sides) is >= 0.
C14_AreaTotalNaoNegativa ==
    \A p \in PontosAvaliados :
        (/\ angulo_graus \in {45, -45}
         /\ zc_min_busca <= p.fino /\ p.fino <= zc_max_busca) =>
            /\ p.vol >= 0
            /\ p = PontoEm(p.fino, angulo_graus) =>
                  _calcular_propriedades_secao_inclinada(p.fino, angulo_graus)
                      >= 0

\* a waterline below the keel at which the starboard routine returns a
\* negative area
C14_Testemunha ==
    /\ angulo_graus = 45
    /\ zc_fsolve = PontoEm(Fino(-1), 45)
    /\ _calcular_propriedades_boreste(Fino(-1), 45) < 0
    /\ _calcular_propriedades_secao_inclinada(Fino(-1), 45) > 0

\* C17: at a fixed heel angle the hull volume computed by
\* _calcular_propriedades_para_zc_inclinado is non-decreasing in the
\* waterline height: for all zc1 <= zc2 within the hull's vertical envelope
\* volume(zc1, theta) <= volume(zc2, theta), also when zc1 and zc2 fall in
\* different regimes of the section case logic.
C17_VolumeNaoDecrescente ==
    \A p, q \in PontosAvaliados :
        (/\ angulo_graus \in {45, -45}
         /\ z_min <= p.fino /\ p.fino < q.fino /\ q.fino <= z_max) =>
            p.vol <= q.vol

\* C15: for a station that has an interpolant, both side routines handle
\* the degenerate heel regimes by returning a value without root-finding:
\* for |theta| < 1 degree the integrals of the offset curve from z_min to
\* min(zc, z_max), for |theta| > 89 degrees those from z_min to z_max.  A
\* solve at such an angle therefore evaluates its objective: neither
\* routine raises and fsolve yields a waterline.
C15_RegimesDegeneradosDevolvemValor ==
    (/\ pc \notin {"ocioso", "fsolve"}
     /\ AnguloDegenerado(angulo_graus)
     /\ ~caso_trivial(volume_desejado, angulo_graus)) =>
        /\ ~bombordo_levanta(angulo_graus)
        /\ ~boreste_levanta(angulo_graus)
        /\ ~fsolve_falhou
        /\ ~zc_fsolve.nan

----------------------------------------------------------------------------
(* Claims about the hull geometry as shared state.                         *)

\* C16: the section computation has no hidden state: two calls of
\* _calcular_propriedades_secao_inclinada with the same (station, zc,
\* theta) on the same hull return identical results, whatever section,
\* volume or equilibrium computations run between them, because no such
\* computation writes to the hull geometry (station list, per-station
\* interpolants, keel profile) or to the mirrored interpolants after
\* construction.
C16_SemEstadoOculto ==
    /\ [](ultima_chamada # <<>> =>
            ultimo_resultado = historico[ultima_chamada])
    /\ [][/\ casco_geo' = casco_geo
          /\ pcPureza = "construido" =>
                funcoes_baliza_bb' = funcoes_baliza_bb]_vars

\* a section call repeated after calls with other arguments and after
\* volume and equilibrium computations, on a hull with both interpolants
C16_Testemunha ==
    /\ chamada_repetida
    /\ Cardinality(DOMAIN historico) >= 3
    /\ ultimo_volume # <<>>
    /\ ultimo_volume[1] = "kn"
    /\ casco_geo.funcoes_baliza = Estacoes
    /\ ultimo_resultado.valores.area > 0

----------------------------------------------------------------------------
(* integrar (utils/integration.py): the trapezoid rule on the points       *)
(* np.arange(lower, upper + passo/2, passo).  Lengths are whole numbers of *)
(* grid units; Passo grid units stand for the step (0.001 in the code).    *)
(* The value returned here is TWICE the integral, so that the halves of    *)
(* the trapezoid rule stay whole.                                          *)

Passo == 8

\* a sample the integrand could not compute (NaN)
NaN == -1000000000

\* np.nan_to_num(pontos_y, nan=0.0)
nan_to_num(y) == IF y = NaN THEN 0 ELSE y

\* the number of points of np.arange(lo, hi + passo / 2, passo): the
\* k >= 0 with lo + k * passo < hi + passo / 2
tamanho_pontos_x(lo, hi) ==
    IF 2 * lo >= 2 * hi + Passo THEN 0
    ELSE (2 * (hi - lo) + Passo + 2 * Passo - 1) \div (2 * Passo)

pontos_de_integrar(lo, hi) ==
    [k \in 1..tamanho_pontos_x(lo, hi) |-> lo + (k - 1) * Passo]

\* the guards of integrar read as one test, for comparison: only an empty
\* array of points returns without evaluating the integrand
devolve_zero_so_sem_pontos(lo, hi) == tamanho_pontos_x(lo, hi) < 1

\* the two early returns of integrar: limite_inferior >= limite_superior,
\* then fewer than two points
devolve_zero(lo, hi) == lo >= hi \/ tamanho_pontos_x(lo, hi) < 2

RECURSIVE SomaTrapezios(_, _)
SomaTrapezios(ys, k) ==
    IF k >= Len(ys) THEN 0
    ELSE (ys[k] + ys[k + 1]) + SomaTrapezios(ys, k + 1)

\* scipy.integrate.trapezoid on equally spaced points, doubled
trapezoid(ys) == Passo * SomaTrapezios(ys, 1)

\* how many points the integrand is evaluated at by one call
avaliacoes_de_integrar(lo, hi) ==
    IF devolve_zero(lo, hi) THEN 0 ELSE tamanho_pontos_x(lo, hi)

integrar(funcao_a_integrar, lo, hi) ==
    IF devolve_zero(lo, hi) THEN 0
    ELSE LET xs == pontos_de_integrar(lo, hi)
         IN  trapezoid([k \in DOMAIN xs |->
                            nan_to_num(funcao_a_integrar[xs[k]])])

(* Calls of integrar on its own, with integrands of every kind the callers *)
(* pass: constant, growing, negative, and one that is NaN at every point.  *)

Integrandos == {"constante", "identidade", "negativa", "indefinida"}

avaliar_integrando(g, x) ==
    CASE g = "constante" -> 1
      [] g = "identidade" -> x
      [] g = "negativa" -> -1 - x * x
      [] OTHER -> NaN

LimitesDeIntegracao == (0 - Passo)..(2 * Passo)

InitIntegrar ==
    /\ pcIntegrar = "chamado"
    /\ integrando \in Integrandos
    /\ limite_inferior \in LimitesDeIntegracao
    /\ limite_superior \in LimitesDeIntegracao
    /\ avaliacoes_integrando = 0
    /\ area_integrar = 0
    /\ ZcInicial /\ KnInicial /\ TrimInicial /\ CascoInicial
    /\ RaizesInicial /\ PurezaInicial /\ HidroInicial
    /\ NovosIniciais

chamar_integrar ==
    /\ pcIntegrar = "chamado"
    /\ pcIntegrar' = "devolvido"
    /\ avaliacoes_integrando' =
            avaliacoes_de_integrar(limite_inferior, limite_superior)
    /\ area_integrar' =
            integrar([x \in Int |-> avaliar_integrando(integrando, x)],
                     limite_inferior, limite_superior)
    /\ UNCHANGED <<integrando, limite_inferior, limite_superior>>
    /\ UNCHANGED <<varsZc, varsKN, varsTrim, varsCasco, varsRaizes,
                   varsPureza, varsHidro,
                   varsNovos>>

NextIntegrar == chamar_integrar

SpecIntegrar == InitIntegrar /\ [][NextIntegrar]_vars

----------------------------------------------------------------------------
(* PropriedadesHidrostaticas (core/ch.py) at one draft, on wall-sided box  *)
(* hulls.  Lengths are whole grid units, Metro of them to the metre; an    *)
(* integral is kept as the doubled value integrar returns; a quotient is   *)
(* kept as numerator and denominator and never carried out.                *)

Metro == 2 * Passo

\* the distance from the hull ends at which the two root searches start
\* (1e-6 in the code)
Folga == 1

\* tolerancia = 1e-3 of the end-station test, the size of one step
tolerancia_extremos == Passo

\* the guards compare with 1e-6
limiar_inv == 1000000

\* the box of the test scenario, with two or three stations, and a
\* narrower one
ComprimentoCaixa == 10
MeiaBocaCaixa == 2
PontalCaixa == 2

CascosHid ==
    {[posicoes_balizas |-> xs, meia_boca |-> y * Metro,
      pontal |-> PontalCaixa * Metro] :
        xs \in {<<0, ComprimentoCaixa * Metro>>,
                <<0, (ComprimentoCaixa \div 2) * Metro,
                  ComprimentoCaixa * Metro>>},
        y \in {MeiaBocaCaixa - 1, MeiaBocaCaixa}}

\* drafts from the keel to above the deck, every half metre
CaladosHid == {k * Passo : k \in 0..5}

\* a guard that lets every quantity that is not negative through, for
\* comparison
acima_do_limiar_sem_folga(q, escala) == q >= 0

\* q / escala > 1e-6, for whole q and escala > 0
acima_do_limiar(q, escala) == q > 0 /\ escala \div q < limiar_inv

\* q / escala < 1e-6
abaixo_do_limiar(q, escala) == q <= (escala - 1) \div limiar_inv

\* a quotient the code carried out, times fator / 1000, and the 0.0 the
\* code assigns instead
Quociente(n, d) == [nulo |-> FALSE, num |-> n, den |-> d, fator |-> 1000]
ValorNulo == [nulo |-> TRUE, num |-> 0, den |-> 1, fator |-> 1000]

\* interp1d(z, y, kind='linear', bounds_error=False, fill_value=0.0) of a
\* station of the box: the half-breadth between keel and deck, 0 outside
funcao_baliza(c, z) ==
    IF 0 <= z /\ z <= c.pontal THEN c.meia_boca ELSE 0

Balizas(c) == {c.posicoes_balizas[i] : i \in DOMAIN c.posicoes_balizas}

_obter_meia_boca(c, x, z) ==
    IF x \in Balizas(c) THEN nan_to_num(funcao_baliza(c, z)) ELSE 0

\* the keel profile: the lowest height of every station, 0 for the box,
\* and the fill value 0 outside the hull
funcao_perfil(c, x) == 0

\* sorted(list(set(zip(xs, ys))))
RECURSIVE ordenar_pontos(_)
ordenar_pontos(S) ==
    IF S = {} THEN <<>>
    ELSE LET p == CHOOSE p \in S :
                    \A q \in S : p[1] < q[1] \/ (p[1] = q[1] /\ p[2] <= q[2])
         IN  <<p>> \o ordenar_pontos(S \ {p})

pontos_unicos(xs, ys) == ordenar_pontos({<<xs[i], ys[i]>> : i \in DOMAIN xs})

\* interp1d(x, y, kind='linear', bounds_error=False, fill_value=0.0)
interp1d(pts, x) ==
    IF pts = <<>> THEN 0
    ELSE IF x < pts[1][1] \/ x > pts[Len(pts)][1] THEN 0
    ELSE IF Len(pts) = 1 THEN pts[1][2]
    ELSE LET i == CHOOSE i \in 1..(Len(pts) - 1) :
                    pts[i][1] <= x /\ x <= pts[i + 1][1]
         IN  IF pts[i + 1][1] = pts[i][1] THEN pts[i][2]
             ELSE pts[i][2] + ((pts[i + 1][2] - pts[i][2]) * (x - pts[i][1]))
                                \div (pts[i + 1][1] - pts[i][1])

\* fsolve on funcao_perfil(x) - calado started at chute: the residual of
\* the box is the same at every x, so it is zero at the start or no trial
\* step reduces it, and the starting point is what fsolve returns
fsolve_perfil(c, calado, chute) == chute

\* the attributes as __init__ leaves them before the computations
AtributosIniciais ==
    [bwl |-> 0, x_re |-> 0, x_vante |-> 0, lwl |-> 0,
     interpolador_wl |-> <<>>, area_plano_flutuacao |-> 0,
     lcf |-> ValorNulo, areas_secoes |-> <<>>,
     interpolador_areas |-> <<>>, volume |-> 0,
     deslocamento |-> ValorNulo, lcb |-> ValorNulo, vcb |-> ValorNulo,
     momento_inercia_transversal |-> 0, momento_inercia_longitudinal |-> 0,
     bmt |-> ValorNulo, kmt |-> <<ValorNulo, ValorNulo>>,
     bml |-> ValorNulo, kml |-> <<ValorNulo, ValorNulo>>,
     tpc |-> ValorNulo, mtc |-> ValorNulo, cb |-> ValorNulo,
     cp |-> ValorNulo, cwp |-> ValorNulo,
     cm |-> [nulo |-> TRUE, num |-> ValorNulo, den |-> ValorNulo],
     divisores |-> {}, falha |-> "nenhuma"]

InitHidro ==
    /\ pcHidro = "dimensoes"
    /\ modulo_hid \in {"ch", "ch_teste"}
    /\ casco_hid \in CascosHid
    /\ calado_hid \in CaladosHid
    /\ hid = AtributosIniciais
    /\ ZcInicial /\ KnInicial /\ TrimInicial /\ CascoInicial
    /\ RaizesInicial /\ PurezaInicial /\ IntegrarInicial
    /\ NovosIniciais

\* what no step of the computation writes
hidro_inalterado ==
    /\ UNCHANGED <<modulo_hid, casco_hid, calado_hid>>
    /\ UNCHANGED <<varsZc, varsKN, varsTrim, varsCasco, varsRaizes,
                   varsPureza, varsIntegrar,
                   varsNovos>>

RECURSIVE maior_meia_boca(_, _, _)
maior_meia_boca(c, calado, i) ==
    IF i > Len(c.posicoes_balizas) THEN 0
    ELSE Max(nan_to_num(funcao_baliza(c, calado)),
             maior_meia_boca(c, calado, i + 1))

\* a root the search returns is kept when it lies on the hull, and
\* replaced by the hull end otherwise
raiz_validada(raiz, x_lim_re, x_lim_vante, limite) ==
    IF x_lim_re <= raiz /\ raiz <= x_lim_vante THEN raiz ELSE limite

_calcular_dimensoes_linha_dagua ==
    /\ modulo_hid = "ch"
    /\ pcHidro = "dimensoes"
    /\ LET c == casco_hid
           x_lim_re == c.posicoes_balizas[1]
           x_lim_vante == c.posicoes_balizas[Len(c.posicoes_balizas)]
           x_re_calc ==
               raiz_validada(fsolve_perfil(c, calado_hid, x_lim_re + Folga),
                             x_lim_re, x_lim_vante, x_lim_re)
           x_vante_calc ==
               raiz_validada(fsolve_perfil(c, calado_hid, x_lim_vante - Folga),
                             x_lim_re, x_lim_vante, x_lim_vante)
       IN  hid' = [hid EXCEPT
                      !.bwl = 2 * maior_meia_boca(c, calado_hid, 1),
                      !.x_re = Min(x_re_calc, x_vante_calc),
                      !.x_vante = Max(x_re_calc, x_vante_calc),
                      !.lwl = Max(x_re_calc, x_vante_calc)
                                - Min(x_re_calc, x_vante_calc)]
    /\ pcHidro' = "area_plano"
    /\ hidro_inalterado

\* the stations strictly inside the waterline, in order
balizas_internas(c, h) ==
    SelectSeq(c.posicoes_balizas, LAMBDA x : x > h.x_re /\ x < h.x_vante)

\* the end value is taken from the end station when the waterline end is
\* within the tolerance of it, and is 0.0 otherwise
valor_no_extremo(valor, x_extremo, x_baliza) ==
    IF Abs(x_extremo - x_baliza) < tolerancia_extremos THEN valor ELSE 0

\* the points (x, value) of a curve along the waterline: its two ends and
\* the stations inside
pontos_da_curva(c, h, valor_em) ==
    LET internas == balizas_internas(c, h)
        popa == c.posicoes_balizas[1]
        proa == c.posicoes_balizas[Len(c.posicoes_balizas)]
        xs == <<h.x_re>> \o internas \o <<h.x_vante>>
        ys == <<valor_no_extremo(valor_em[popa], h.x_re, popa)>>
              \o [i \in DOMAIN internas |-> valor_em[internas[i]]]
              \o <<valor_no_extremo(valor_em[proa], h.x_vante, proa)>>
    IN  pontos_unicos(xs, ys)

_calcular_area_plano_flutuacao ==
    /\ modulo_hid = "ch"
    /\ pcHidro = "area_plano"
    /\ LET wl == pontos_da_curva(casco_hid, hid,
                    [x \in Int |-> _obter_meia_boca(casco_hid, x, calado_hid)])
       IN  hid' = [hid EXCEPT
                      !.interpolador_wl = wl,
                      \* meia_area * 2
                      !.area_plano_flutuacao =
                          integrar([x \in Int |-> interp1d(wl, x)],
                                   hid.x_re, hid.x_vante)]
    /\ pcHidro' = "lcf"
    /\ hidro_inalterado

_calcular_lcf ==
    /\ modulo_hid = "ch"
    /\ pcHidro = "lcf"
    /\ hid' = [hid EXCEPT !.lcf =
          IF abaixo_do_limiar(hid.area_plano_flutuacao, Metro * Metro)
                \/ hid.interpolador_wl = <<>>
          THEN ValorNulo
          ELSE Quociente(
                  integrar([x \in Int |-> x * interp1d(hid.interpolador_wl, x)],
                           hid.x_re, hid.x_vante),
                  hid.area_plano_flutuacao)]
    /\ pcHidro' = "areas_secoes"
    /\ hidro_inalterado

\* area_meio_casco * 2
_calcular_area_secao(c, x_baliza, calado) ==
    integrar([z \in Int |-> _obter_meia_boca(c, x_baliza, z)], 0, calado)

calcular_areas_secoes ==
    /\ modulo_hid = "ch"
    /\ pcHidro = "areas_secoes"
    /\ hid' = [hid EXCEPT !.areas_secoes =
                  [x \in Balizas(casco_hid) |->
                        _calcular_area_secao(casco_hid, x, calado_hid)]]
    /\ pcHidro' = "volume"
    /\ hidro_inalterado

\* volume is kept doubled; deslocamento = volume * densidade
_calcular_volume_deslocamento ==
    /\ modulo_hid = "ch"
    /\ pcHidro = "volume"
    /\ LET areas == pontos_da_curva(casco_hid, hid, hid.areas_secoes)
           volume_calculado == integrar([x \in Int |-> interp1d(areas, x)],
                                        hid.x_re, hid.x_vante)
       IN  hid' = [hid EXCEPT
                      !.interpolador_areas = areas,
                      !.volume = volume_calculado,
                      !.deslocamento =
                          [nulo |-> FALSE, num |-> volume_calculado,
                           den |-> 2, fator |-> Densidade]]
    /\ pcHidro' = "lcb"
    /\ hidro_inalterado

_calcular_lcb ==
    /\ modulo_hid = "ch"
    /\ pcHidro = "lcb"
    /\ hid' = [hid EXCEPT !.lcb =
          IF abaixo_do_limiar(hid.volume, 2 * Metro * Metro * Metro)
                \/ hid.interpolador_areas = <<>>
          THEN ValorNulo
          ELSE Quociente(
                  integrar([x \in Int |-> x * interp1d(hid.interpolador_areas, x)],
                           hid.x_re, hid.x_vante),
                  hid.volume)]
    /\ pcHidro' = "vcb"
    /\ hidro_inalterado

\* the integral of z * 2 y(z) from 0 to the draft
_calcular_momento_vertical_secao(c, x_baliza, calado) ==
    integrar([z \in Int |-> z * _obter_meia_boca(c, x_baliza, z)], 0, calado)

_calcular_vcb ==
    /\ modulo_hid = "ch"
    /\ pcHidro = "vcb"
    /\ hid' = [hid EXCEPT !.vcb =
          IF abaixo_do_limiar(hid.volume, 2 * Metro * Metro * Metro)
          THEN ValorNulo
          ELSE LET c == casco_hid
                   momentos ==
                       [i \in DOMAIN c.posicoes_balizas |->
                           <<c.posicoes_balizas[i],
                             _calcular_momento_vertical_secao(
                                 c, c.posicoes_balizas[i], calado_hid)>>]
               IN  Quociente(integrar([x \in Int |-> interp1d(momentos, x)],
                                      hid.x_re, hid.x_vante),
                             hid.volume)]
    /\ pcHidro' = "it"
    /\ hidro_inalterado

\* three times the integral of (2/3) y^3
_calcular_momento_inercia_transversal ==
    /\ modulo_hid = "ch"
    /\ pcHidro = "it"
    /\ hid' = [hid EXCEPT !.momento_inercia_transversal =
          IF hid.interpolador_wl = <<>> THEN 0
          ELSE integrar([x \in Int |-> interp1d(hid.interpolador_wl, x)
                                    * interp1d(hid.interpolador_wl, x)
                                    * interp1d(hid.interpolador_wl, x)],
                        hid.x_re, hid.x_vante)]
    /\ pcHidro' = "il"
    /\ hidro_inalterado

\* the value of a quotient to the nearest grid unit below
arredondado(r) == IF r.nulo THEN 0 ELSE r.num \div r.den

\* the integral of (x - lcf)^2 * 2 y, with lcf to the grid unit
_calcular_momento_inercia_longitudinal ==
    /\ modulo_hid = "ch"
    /\ pcHidro = "il"
    /\ hid' = [hid EXCEPT !.momento_inercia_longitudinal =
          IF hid.interpolador_wl = <<>> THEN 0
          ELSE integrar([x \in Int |-> (x - arredondado(hid.lcf))
                                    * (x - arredondado(hid.lcf))
                                    * interp1d(hid.interpolador_wl, x)],
                        hid.x_re, hid.x_vante)]
    /\ pcHidro' = "derivadas"
    /\ hidro_inalterado

\* max(self.areas_secoes.values()) if self.areas_secoes else 0.0
RECURSIVE maior_valor(_, _)
maior_valor(f, S) ==
    IF S = {} THEN 0
    ELSE LET x == CHOOSE x \in S : TRUE
         IN  Max(f[x], maior_valor(f, S \ {x}))

area_secao_mestra(h) == maior_valor(h.areas_secoes, DOMAIN h.areas_secoes)

\* the denominators of the form coefficients, each with the number of grid
\* units that makes one unit of it
denominador_bloco(h, calado) == <<h.lwl * h.bwl * calado, Metro * Metro * Metro>>
denominador_prismatico(h) == <<area_secao_mestra(h) * h.lwl, Metro * Metro * Metro>>
denominador_plano_flutuacao(h) == <<h.lwl * h.bwl, Metro * Metro>>
denominador_volume(h) == <<h.volume, 2 * Metro * Metro * Metro>>
denominador_lwl(h) == <<h.lwl, Metro>>

\* numerador / denominador if the guarded quantity is above 1e-6, else 0.0
razao_guardada(guarda, numerador, denominador) ==
    IF acima_do_limiar(guarda[1], guarda[2])
    THEN Quociente(numerador, denominador)
    ELSE ValorNulo

\* the divisor of a quotient, when its guard lets the division through
divisor_usado(guarda, divisor) ==
    IF acima_do_limiar(guarda[1], guarda[2]) THEN {divisor} ELSE {}

\* the divisor of MTc, 100 * lwl
denominador_mtc(h) == <<100 * h.lwl, Metro>>

_calcular_propriedades_derivadas ==
    /\ modulo_hid = "ch"
    /\ pcHidro = "derivadas"
    /\ LET h == hid
           vol == denominador_volume(h)
           bmt == razao_guardada(vol, 2 * h.momento_inercia_transversal,
                                 3 * h.volume)
           bml == razao_guardada(vol, 2 * h.momento_inercia_longitudinal,
                                 h.volume)
           mtc == [razao_guardada(denominador_lwl(h),
                                  h.momento_inercia_longitudinal,
                                  100 * h.lwl)
                     EXCEPT !.fator = Densidade]
           bloco == denominador_bloco(h, calado_hid)
           prismatico == denominador_prismatico(h)
           plano == denominador_plano_flutuacao(h)
           cb == razao_guardada(bloco, h.volume, 2 * bloco[1])
           cp == razao_guardada(prismatico, h.volume, 2 * prismatico[1])
           cwp == razao_guardada(plano, h.area_plano_flutuacao, plano[1])
           guarda_cm == <<cp.num, cp.den>>
       IN  hid' = [hid EXCEPT
                      !.bmt = bmt,
                      !.kmt = <<h.vcb, bmt>>,
                      !.bml = bml,
                      !.kml = <<h.vcb, bml>>,
                      !.tpc = [nulo |-> FALSE,
                               num |-> h.area_plano_flutuacao,
                               den |-> 100, fator |-> Densidade],
                      !.mtc = mtc,
                      !.cb = cb,
                      !.cp = cp,
                      !.cwp = cwp,
                      !.cm = IF acima_do_limiar(guarda_cm[1], guarda_cm[2])
                             THEN [nulo |-> FALSE, num |-> cb, den |-> cp]
                             ELSE [nulo |-> TRUE, num |-> ValorNulo,
                                   den |-> ValorNulo],
                      !.divisores =
                          divisor_usado(vol, vol)
                          \cup divisor_usado(denominador_lwl(h),
                                             denominador_mtc(h))
                          \cup divisor_usado(bloco, bloco)
                          \cup divisor_usado(prismatico, prismatico)
                          \cup divisor_usado(plano, plano)
                          \cup divisor_usado(guarda_cm, guarda_cm)]
    /\ pcHidro' = "fim"
    /\ hidro_inalterado

(* PropriedadesHidrostaticasDireita (core/ch_teste.py), the self-contained *)
(* module whose main program runs the box scenario.  Its integrands look   *)
(* a station up by its x and are 0 at every x that is not a station; its   *)
(* integrar is the same routine with a step of 0.01.                       *)

\* InterpoladorCasco.obter_meia_boca of ch_teste.py for one x
obter_meia_boca(c, x, z) ==
    IF x \in Balizas(c) THEN nan_to_num(funcao_baliza(c, z)) ELSE 0

\* area_para_um_x: 0.0 without a station at x_val, else the integral of
\* 2 y(z) from the lowest point of the station to the draft
area_para_um_x(c, x_val, calado) ==
    IF x_val \notin Balizas(c) THEN 0
    ELSE integrar([z \in Int |-> obter_meia_boca(c, x_val, z)], 0, calado)

\* momento_para_um_x: the integral of 2 y(z) z from 0 to the draft
momento_para_um_x(c, x_val, calado) ==
    integrar([z \in Int |-> obter_meia_boca(c, x_val, z) * z], 0, calado)

\* what fsolve can return on funcao_perfil(x) - calado, where the profile
\* of ch_teste.py is the deck height on the hull and 0 outside it: the
\* residual has no root on the hull, and the search ends at its starting
\* point or at a point outside the hull
ResultadosFsolve(chute, fora) == {chute, fora}

\* value if value else 0.0, for the quotients of ch_teste.py
razao_se_nao_zero(denominador, numerador, divisor) ==
    IF denominador # 0 THEN Quociente(numerador, divisor) ELSE ValorNulo

\* the whole of calcular_todas_propriedades with the limits lim_inf and
\* lim_sup of the waterline
propriedades_direita(c, calado, h, lim_inf, lim_sup) ==
    LET volume == integrar([x \in Int |-> area_para_um_x(c, x, calado)],
                           lim_inf, lim_sup)
        lcb == razao_se_nao_zero(volume,
                   integrar([x \in Int |-> area_para_um_x(c, x, calado) * x],
                            lim_inf, lim_sup),
                   volume)
        vcb == razao_se_nao_zero(volume,
                   integrar([x \in Int |-> momento_para_um_x(c, x, calado)],
                            lim_inf, lim_sup),
                   volume)
        aw == integrar([x \in Int |-> obter_meia_boca(c, x, calado)],
                       lim_inf, lim_sup)
        lcf == razao_se_nao_zero(aw,
                   integrar([x \in Int |-> obter_meia_boca(c, x, calado) * x],
                            lim_inf, lim_sup),
                   aw)
        it == integrar([x \in Int |-> obter_meia_boca(c, x, calado)
                                    * obter_meia_boca(c, x, calado)
                                    * obter_meia_boca(c, x, calado)],
                       lim_inf, lim_sup)
        il == integrar([x \in Int |-> obter_meia_boca(c, x, calado)
                                    * (x - arredondado(lcf))
                                    * (x - arredondado(lcf))],
                       lim_inf, lim_sup)
        bmt == razao_se_nao_zero(volume, 2 * it, 3 * volume)
        bml == razao_se_nao_zero(volume, 2 * il, volume)
        desloc == [nulo |-> FALSE, num |-> volume, den |-> 2,
                   fator |-> Densidade]
        lpp == c.posicoes_balizas[Len(c.posicoes_balizas)]
                 - c.posicoes_balizas[1]
    IN  [h EXCEPT
            !.bwl = 2 * maior_meia_boca(c, calado, 1),
            !.x_re = lim_inf,
            !.x_vante = lim_sup,
            !.lwl = lim_sup - lim_inf,
            !.volume = volume,
            !.deslocamento = desloc,
            !.lcb = lcb,
            !.vcb = vcb,
            !.area_plano_flutuacao = aw,
            !.lcf = lcf,
            !.momento_inercia_transversal = it,
            !.momento_inercia_longitudinal = il,
            !.bmt = bmt,
            !.kmt = <<vcb, bmt>>,
            !.bml = bml,
            !.kml = <<vcb, bml>>,
            \* MT1cm = Desloc * BMl / (100 * lpp) if lpp else 0.0
            !.mtc = IF lpp # 0
                    THEN [nulo |-> FALSE, num |-> <<desloc, bml>>,
                          den |-> 100 * lpp]
                    ELSE [nulo |-> TRUE, num |-> <<desloc, bml>>,
                          den |-> 1],
            !.tpc = [nulo |-> FALSE, num |-> aw, den |-> 100,
                     fator |-> Densidade]]

calcular_todas_propriedades ==
    /\ modulo_hid = "ch_teste"
    /\ pcHidro = "dimensoes"
    /\ LET c == casco_hid
           x_min == c.posicoes_balizas[1]
           x_max == c.posicoes_balizas[Len(c.posicoes_balizas)]
       IN  IF calado_hid >= c.pontal
           THEN \* the limits are never stored and the next step reads them
                hid' = [hid EXCEPT !.falha = "KeyError"]
           ELSE \E x_re \in ResultadosFsolve(x_min + Folga, x_min - Folga),
                   x_vante \in ResultadosFsolve(x_max - Folga, x_max + Folga) :
                    LET x_re_calc == IF x_min <= x_re /\ x_re <= x_max
                                     THEN x_re ELSE x_min
                        x_vante_calc ==
                            IF x_min <= x_vante /\ x_vante <= x_max
                            THEN x_vante ELSE x_max
                    IN  hid' = propriedades_direita(
                                   c, calado_hid, hid,
                                   Min(x_re_calc, x_vante_calc),
                                   Max(x_re_calc, x_vante_calc))
    /\ pcHidro' = "fim"
    /\ hidro_inalterado

NextHidro ==
    \/ _calcular_dimensoes_linha_dagua
    \/ _calcular_area_plano_flutuacao
    \/ _calcular_lcf
    \/ calcular_areas_secoes
    \/ _calcular_volume_deslocamento
    \/ _calcular_lcb
    \/ _calcular_vcb
    \/ _calcular_momento_inercia_transversal
    \/ _calcular_momento_inercia_longitudinal
    \/ _calcular_propriedades_derivadas
    \/ calcular_todas_propriedades

SpecHidro == InitHidro /\ [][NextHidro]_vars

----------------------------------------------------------------------------
(* Claims about the hydrostatic properties at one draft.                   *)

\* the box of the scenario (stations at x = 0 and x = 10, half-breadth 2,
\* depth 2) at draft 1, after the computation
CenarioDaCaixa ==
    /\ pcHidro = "fim"
    /\ casco_hid.posicoes_balizas = <<0, ComprimentoCaixa * Metro>>
    /\ casco_hid.meia_boca = MeiaBocaCaixa * Metro
    /\ casco_hid.pontal = PontalCaixa * Metro
    /\ calado_hid = Metro

\* C18: for the box hull with stations at x = 0 and x = 10, constant
\* half-breadth 2 and depth 2, at even-keel draft 1 and density 1.025, the
\* hydrostatic computation yields volume = 40 (length x breadth x draft),
\* displacement = 41.0 (volume x density), LCB = 5.0 (half the length),
\* VCB = 0.5 (half the draft), waterplane area = 40 (length x breadth) and
\* LCF = 5.0.
C18_CaixaNoCaladoUm ==
    CenarioDaCaixa =>
        LET comprimento == ComprimentoCaixa * Metro
            boca == 2 * MeiaBocaCaixa * Metro
        IN  /\ hid.falha = "nenhuma"
            /\ hid.volume = 2 * comprimento * boca * calado_hid
            /\ hid.deslocamento =
                   [nulo |-> FALSE,
                    num |-> 2 * comprimento * boca * calado_hid,
                    den |-> 2, fator |-> Densidade]
            /\ ~hid.lcb.nulo /\ 2 * hid.lcb.num = comprimento * hid.lcb.den
            /\ ~hid.vcb.nulo /\ 2 * hid.vcb.num = calado_hid * hid.vcb.den
            /\ hid.area_plano_flutuacao = comprimento * boca
            /\ ~hid.lcf.nulo /\ 2 * hid.lcf.num = comprimento * hid.lcf.den

\* C19: in PropriedadesHidrostaticas every derived quantity that is a ratio
\* (BMt, BMl, MTc, Cb, Cp, Cwp, Cm) is exactly 0 whenever its denominator
\* is below 1e-6, and no division by a denominator below 1e-6 is ever
\* performed.
C19_RazoesGuardadas ==
    (pcHidro = "fim" /\ modulo_hid = "ch") =>
        LET abaixo(d) == abaixo_do_limiar(d[1], d[2])
        IN  /\ \A d \in hid.divisores : ~abaixo(d)
            /\ abaixo(denominador_volume(hid)) =>
                    hid.bmt = ValorNulo /\ hid.bml = ValorNulo
            /\ abaixo(denominador_mtc(hid)) => hid.mtc.nulo /\ hid.mtc.num = 0
            /\ abaixo(denominador_bloco(hid, calado_hid)) =>
                    hid.cb = ValorNulo
            /\ abaixo(denominador_prismatico(hid)) => hid.cp = ValorNulo
            /\ abaixo(denominador_plano_flutuacao(hid)) =>
                    hid.cwp = ValorNulo
            /\ abaixo(<<hid.cp.num, hid.cp.den>>) => hid.cm.nulo

\* the computation ended at a draft where the volume and the block
\* denominator are 0, so that BMt, BMl, Cb, Cp and Cm took the value 0,
\* while the waterplane coefficient was divided out
C19_Testemunha ==
    /\ pcHidro = "fim"
    /\ modulo_hid = "ch"
    /\ hid.volume = 0
    /\ denominador_bloco(hid, calado_hid)[1] = 0
    /\ hid.bmt.nulo /\ hid.cb.nulo /\ hid.cm.nulo
    /\ ~hid.cwp.nulo
    /\ denominador_plano_flutuacao(hid) \in hid.divisores

----------------------------------------------------------------------------
(* Claims about integrar.                                                  *)

\* C20: integrar returns exactly 0 for every integrand whenever the lower
\* limit is greater than or equal to the upper limit (zero-length and
\* reversed intervals), and it does so without evaluating the integrand.
C20_IntervaloVazioDevolveZero ==
    (pcIntegrar = "devolvido" /\ limite_inferior >= limite_superior) =>
        /\ area_integrar = 0
        /\ avaliacoes_integrando = 0

\* a zero-length interval was integrated with an integrand that is not
\* zero there, and a call on a proper interval evaluates it
C20_Testemunha ==
    /\ pcIntegrar = "devolvido"
    /\ limite_inferior = limite_superior
    /\ integrando = "constante"
    /\ avaliacoes_de_integrar(limite_inferior, limite_superior + Passo) = 2

----------------------------------------------------------------------------
(* The half-breadth lookups.  A station holds two offsets (z_lo, y_lo) and *)
(* (z_hi, y_hi); between them both interpolation methods are the straight  *)
(* line through the two points.  The upright hydrostatics read a station   *)
(* through _obter_meia_boca, the heeled section computation calls the      *)
(* interpolant of the station and its mirror image directly.               *)

Metodos == {"linear", "pchip"}

\* the offsets of the stations looked up: heights apart by 2 or 4, and
\* half-breadths that keep the line on whole numbers
OffsetsDeConsulta ==
    {[z_lo |-> a, z_hi |-> a + d, y_lo |-> 4 * b, y_hi |-> 4 * c] :
        a \in 0..1, d \in {2, 4}, b \in 0..2, c \in 1..2}

AlturasDeConsulta == (0 - 2)..7

\* interp1d(..., bounds_error=False, fill_value=0.0) and
\* PchipInterpolator(..., extrapolate=False), which is NaN outside its
\* points
interpolador_secao(metodo, o, z) ==
    IF z < o.z_lo \/ z > o.z_hi
    THEN IF metodo = "pchip" THEN NaN ELSE 0
    ELSE o.y_lo + ((o.y_hi - o.y_lo) * (z - o.z_lo)) \div (o.z_hi - o.z_lo)

\* lambda z, interp=interp_be: -interp(z)
interpolador_espelhado(metodo, o, z) ==
    LET y == interpolador_secao(metodo, o, z)
    IN  IF y = NaN THEN NaN ELSE 0 - y

\* PropriedadesHidrostaticas._obter_meia_boca at a station with an
\* interpolant
meia_boca_direita(metodo, o, z) == nan_to_num(interpolador_secao(metodo, o, z))

InitConsulta ==
    /\ pcConsulta = "pronto"
    /\ consulta \in [metodo : Metodos, offsets : OffsetsDeConsulta,
                     z : AlturasDeConsulta, rota : {"nenhuma"},
                     valor : {0}]
    /\ CasosInicial /\ GZInicial /\ InclinantesInicial /\ RPIInicial
    /\ ListaInicial
    /\ ZcInicial /\ KnInicial /\ TrimInicial /\ CascoInicial
    /\ RaizesInicial /\ PurezaInicial /\ HidroInicial /\ IntegrarInicial

consulta_inalterado ==
    UNCHANGED <<varsAntigos, varsCasos, varsGZ, varsInclinantes, varsRPI,
                varsLista>>

\* ch.py: self._obter_meia_boca(x, z)
consultar_obter_meia_boca ==
    /\ pcConsulta = "pronto"
    /\ pcConsulta' = "devolvido"
    /\ consulta' = [consulta EXCEPT
                        !.rota = "ch",
                        !.valor = meia_boca_direita(consulta.metodo,
                                      consulta.offsets, consulta.z)]
    /\ consulta_inalterado

\* cc.py: interp_be(z), the interpolant of self.casco.funcoes_baliza
consultar_boreste ==
    /\ pcConsulta = "pronto"
    /\ pcConsulta' = "devolvido"
    /\ consulta' = [consulta EXCEPT
                        !.rota = "cc_be",
                        !.valor = interpolador_secao(consulta.metodo,
                                      consulta.offsets, consulta.z)]
    /\ consulta_inalterado

\* cc.py: interp_bb(z), the mirrored interpolant of self.funcoes_baliza_bb
consultar_bombordo ==
    /\ pcConsulta = "pronto"
    /\ pcConsulta' = "devolvido"
    /\ consulta' = [consulta EXCEPT
                        !.rota = "cc_bb",
                        !.valor = interpolador_espelhado(consulta.metodo,
                                      consulta.offsets, consulta.z)]
    /\ consulta_inalterado

NextConsulta ==
    \/ consultar_obter_meia_boca
    \/ consultar_boreste
    \/ consultar_bombordo

SpecConsulta == InitConsulta /\ [][NextConsulta]_vars

\* C21: the half-breadth lookup returns 0, never an extrapolated or NaN
\* value, for every height z outside the range of offsets defined at the
\* station, with the linear and the pchip method, in the upright
\* hydrostatics and in the heeled section computation alike.
C21_ZeroForaDoDominio ==
    (/\ pcConsulta = "devolvido"
     /\ \/ consulta.z < consulta.offsets.z_lo
        \/ consulta.z > consulta.offsets.z_hi) =>
        consulta.valor = 0


----------------------------------------------------------------------------
(* The case logic of the two side routines of the heeled section (cc.py    *)
(* lines 167-230 and 296-399) on stations of any shape.  A station is the  *)
(* sequence of its half-breadths at the heights 0, 1, ..., AlturaPerfil,   *)
(* joined by straight lines (the linear interpolant).  Heights are counted *)
(* in units of 1 / Unidade, fine enough to hold every intersection of such *)
(* a profile with a waterline of slope +-1.  Areas are doubled.  The three *)
(* integrals of a case (area, my, mz) share their limits, so a result is   *)
(* the limits of the hull integrals, the limits of the waterline integrals *)
(* and the area.                                                           *)

AlturaPerfil == 3
MaxMeiaBocaPerfil == 3
MaxInclinacao == 2

RECURSIVE Fatorial(_)
Fatorial(n) == IF n <= 1 THEN 1 ELSE n * Fatorial(n - 1)

Unidade == Fatorial(MaxInclinacao + 1)

EmUnidades(z) == Unidade * z

\* the offsets of a station: neighbouring half-breadths differ by at most
\* MaxInclinacao
PerfisDeBaliza ==
    {p \in [1..(AlturaPerfil + 1) -> 0..MaxMeiaBocaPerfil] :
        \A i \in 1..AlturaPerfil : Abs(p[i + 1] - p[i]) <= MaxInclinacao}

\* limites_z_baliza.min() and limites_z_baliza.max()
z_min_perfil == EmUnidades(0)
z_max_perfil == EmUnidades(AlturaPerfil)

ZcsDosCasos == {EmUnidades(k) : k \in (0 - 2)..(AlturaPerfil + 2)}

\* interpolador(z) of the station for z in [z_min, z_max], in units
meia_boca_perfil(perfil, u) ==
    LET k == u \div Unidade
        o == u % Unidade
    IN  IF o = 0 THEN Unidade * perfil[k + 1]
        ELSE Unidade * perfil[k + 1] + (perfil[k + 2] - perfil[k + 1]) * o

\* y_wl(z) = (zc - z) / tan_theta with tan_theta = +-1
y_wl(zc, t, u) == t * (zc - u)

\* funcao_dif(z) = interpolador(z) - y_wl(z); s is -1 for the mirrored
\* curve of the port side and 1 for the starboard curve
funcao_dif(perfil, s, zc, t, u) == s * meia_boca_perfil(perfil, u) - y_wl(zc, t, u)

sign(v) == IF v < 0 THEN -1 ELSE IF v > 0 THEN 1 ELSE 0

\* brentq(funcao, a, b) on a bracket of a function linear between a and b
brentq(fa, fb, a, b) ==
    IF fa = 0 THEN a
    ELSE IF fb = 0 THEN b
    ELSE a + ((b - a) * Abs(fa)) \div (Abs(fa) + Abs(fb))

RECURSIVE em_ordem(_)
em_ordem(S) ==
    IF S = {} THEN <<>>
    ELSE LET menor == CHOOSE v \in S : \A w \in S : v <= w
         IN  <<menor>> \o em_ordem(S \ {menor})

\* _encontrar_raizes(funcao_dif, z_min, z_max): the brackets between
\* neighbouring samples whose signs differ, one root of brentq in each,
\* sorted(list(set(raizes)))
raizes_do_perfil(perfil, s, zc, t) ==
    LET f(i) == funcao_dif(perfil, s, zc, t, EmUnidades(i - 1))
    IN  em_ordem({brentq(f(i), f(i + 1), EmUnidades(i - 1), EmUnidades(i)) :
                    i \in {j \in 1..AlturaPerfil : sign(f(j)) # sign(f(j + 1))}})

RECURSIVE soma_do_perfil(_, _, _)
soma_do_perfil(perfil, lo, hi) ==
    IF lo >= hi THEN 0
    ELSE meia_boca_perfil(perfil, lo) + meia_boca_perfil(perfil, lo + 1)
         + soma_do_perfil(perfil, lo + 1, hi)

\* integrar(interpolador, lo, hi), doubled
integrar_perfil(perfil, s, lo, hi) ==
    IF lo >= hi THEN 0 ELSE s * soma_do_perfil(perfil, lo, hi)

\* integrar(y_wl, lo, hi), doubled
integrar_cunha(zc, t, lo, hi) ==
    IF lo >= hi THEN 0
    ELSE t * ((zc - lo) * (zc - lo) - (zc - hi) * (zc - hi))

SemIntegral == <<>>

Resultado(casco, cunha, area) == [casco |-> casco, cunha |-> cunha, area |-> area]

\* return 0.0, 0.0, 0.0
ResultadoZero == Resultado(SemIntegral, SemIntegral, 0)

\* return area, my, mz of the offset curve alone
SoCasco(perfil, s, lo, hi) ==
    Resultado(<<lo, hi>>, SemIntegral, integrar_perfil(perfil, s, lo, hi))

\* area1 + area2: the offset curve over [lo1, hi1] plus the waterline
\* over [lo2, hi2]
CascoMaisCunha(perfil, s, zc, t, lo1, hi1, lo2, hi2) ==
    Resultado(<<lo1, hi1>>, <<lo2, hi2>>,
              integrar_perfil(perfil, s, lo1, hi1)
              + integrar_cunha(zc, t, lo2, hi2))

\* area1 - area2: the offset curve over [lo1, hi1] minus the waterline
\* over [lo2, hi2]
CascoMenosCunha(perfil, s, zc, t, lo1, hi1, lo2, hi2) ==
    Resultado(<<lo1, hi1>>, <<lo2, hi2>>,
              integrar_perfil(perfil, s, lo1, hi1)
              - integrar_cunha(zc, t, lo2, hi2))

\* lines 168-230 of _calcular_propriedades_bombordo
propriedades_bombordo(perfil, zc, theta) ==
    LET t == tan_theta(theta)
        raizes == raizes_do_perfil(perfil, -1, zc, t)
    IN  IF zc <= z_min_perfil THEN ResultadoZero
        ELSE IF raizes = <<>>
        THEN SoCasco(perfil, -1, z_min_perfil, z_max_perfil)
        ELSE CascoMaisCunha(perfil, -1, zc, t,
                            z_min_perfil, raizes[1],
                            raizes[1], Min(zc, z_max_perfil))

\* if zc < z_min (line 316)
abaixo_da_quilha_ou_nela(zc) == zc <= z_min_perfil

abaixo_da_quilha(zc) == zc < z_min_perfil

\* lines 296-399 of _calcular_propriedades_boreste
propriedades_boreste(perfil, zc, theta) ==
    LET t == tan_theta(theta)
        raizes == raizes_do_perfil(perfil, 1, zc, t)
    IN  IF abaixo_da_quilha(zc)
        THEN IF Len(raizes) >= 2
             THEN CascoMenosCunha(perfil, 1, zc, t,
                                  raizes[1], raizes[2], raizes[1], raizes[2])
             ELSE IF Len(raizes) = 1
             THEN CascoMenosCunha(perfil, 1, zc, t,
                                  raizes[1], z_max_perfil,
                                  raizes[1], z_max_perfil)
             ELSE ResultadoZero
        ELSE IF z_min_perfil <= zc /\ zc < z_max_perfil
        THEN IF Len(raizes) = 1
             THEN CascoMenosCunha(perfil, 1, zc, t,
                                  z_min_perfil, raizes[1], zc, raizes[1])
             ELSE CascoMenosCunha(perfil, 1, zc, t,
                                  z_min_perfil, z_max_perfil,
                                  zc, z_max_perfil)
        ELSE SoCasco(perfil, 1, z_min_perfil, z_max_perfil)

InitCasos ==
    /\ pcCasos = "pronto"
    /\ casos \in [lado : {"nenhum"}, perfil : PerfisDeBaliza,
                  zc : ZcsDosCasos, theta : {45, -45},
                  raizes : {<<>>}, resultado : {ResultadoZero}]
    /\ ConsultaInicial /\ GZInicial /\ InclinantesInicial /\ RPIInicial
    /\ ListaInicial
    /\ ZcInicial /\ KnInicial /\ TrimInicial /\ CascoInicial
    /\ RaizesInicial /\ PurezaInicial /\ HidroInicial /\ IntegrarInicial

casos_inalterado ==
    UNCHANGED <<varsAntigos, varsConsulta, varsGZ, varsInclinantes, varsRPI,
                varsLista>>

\* area_bb, my_bb, mz_bb = self._calcular_propriedades_bombordo(...)
chamar_bombordo ==
    /\ pcCasos = "pronto"
    /\ pcCasos' = "devolvido"
    /\ casos' = [casos EXCEPT
                    !.lado = "bb",
                    !.raizes = raizes_do_perfil(casos.perfil, -1, casos.zc,
                                                tan_theta(casos.theta)),
                    !.resultado = propriedades_bombordo(casos.perfil,
                                      casos.zc, casos.theta)]
    /\ casos_inalterado

\* area_be, my_be, mz_be = self._calcular_propriedades_boreste(...)
chamar_boreste ==
    /\ pcCasos = "pronto"
    /\ pcCasos' = "devolvido"
    /\ casos' = [casos EXCEPT
                    !.lado = "be",
                    !.raizes = raizes_do_perfil(casos.perfil, 1, casos.zc,
                                                tan_theta(casos.theta)),
                    !.resultado = propriedades_boreste(casos.perfil,
                                      casos.zc, casos.theta)]
    /\ casos_inalterado

NextCasos ==
    \/ chamar_bombordo
    \/ chamar_boreste

SpecCasos == InitCasos /\ [][NextCasos]_vars

\* C22: on the lee side, for 1 <= |theta| <= 89 degrees, the result of
\* _calcular_propriedades_bombordo is (0, 0, 0) when zc <= z_min and there
\* is no intersection, the integrals of the offset curve over
\* [z_min, z_max] when zc > z_min and there is no intersection, and the
\* integrals of the offset curve over [z_min, r] plus those of the
\* waterline wedge over [r, min(zc, z_max)] when there is exactly one
\* intersection r.
C22_CasosDeBombordo ==
    (pcCasos = "devolvido" /\ casos.lado = "bb") =>
        LET r == casos.raizes
            area == casos.resultado.area
        IN  /\ (casos.zc <= z_min_perfil /\ Len(r) = 0) => area = 0
            /\ (casos.zc > z_min_perfil /\ Len(r) = 0) =>
                   area = integrar_perfil(casos.perfil, -1,
                                          z_min_perfil, z_max_perfil)
            /\ Len(r) = 1 =>
                   area = integrar_perfil(casos.perfil, -1,
                                          z_min_perfil, r[1])
                          + integrar_cunha(casos.zc, tan_theta(casos.theta),
                                r[1], Min(casos.zc, z_max_perfil))

\* the interval a case of the windward side integrates the offset curve
\* over, and the one it integrates the waterline wedge over
IntervalosDeBoreste(zc, r) ==
    IF zc < z_min_perfil
    THEN IF Len(r) = 0 THEN <<SemIntegral, SemIntegral>>
         ELSE IF Len(r) = 1 THEN <<<<r[1], z_max_perfil>>, <<r[1], z_max_perfil>>>>
         ELSE <<<<r[1], r[2]>>, <<r[1], r[2]>>>>
    ELSE IF zc < z_max_perfil
    THEN IF Len(r) = 1 THEN <<<<z_min_perfil, r[1]>>, <<zc, r[1]>>>>
         ELSE <<<<z_min_perfil, z_max_perfil>>, <<zc, z_max_perfil>>>>
    ELSE <<<<z_min_perfil, z_max_perfil>>, SemIntegral>>

AreaDosIntervalos(perfil, s, zc, t, casco, cunha) ==
    (IF casco = SemIntegral THEN 0
     ELSE integrar_perfil(perfil, s, casco[1], casco[2]))
    - (IF cunha = SemIntegral THEN 0
       ELSE integrar_cunha(zc, t, cunha[1], cunha[2]))

\* C23: on the windward side, for 1 <= |theta| <= 89 degrees, every
\* combination of the position of zc (below the keel, between keel and
\* deck, at or above the deck) and of the number of intersections (0, 1,
\* 2 or more) selects one case, and _calcular_propriedades_boreste returns
\* the hull integral minus the waterline-wedge integral over the interval
\* of that case: below the keel (0, 0, 0) with no intersection, [r, z_max]
\* with one, [r1, r2] of the two lowest with two or more; between keel and
\* deck the hull over [z_min, r] minus the wedge over [zc, r] with exactly
\* one intersection and the hull over [z_min, z_max] minus the wedge over
\* [zc, z_max] otherwise; at or above the deck the hull over
\* [z_min, z_max].
C23_CasosDeBoreste ==
    (pcCasos = "devolvido" /\ casos.lado = "be") =>
        LET iv == IntervalosDeBoreste(casos.zc, casos.raizes)
        IN  /\ casos.resultado.casco = iv[1]
            /\ casos.resultado.cunha = iv[2]
            /\ casos.resultado.area =
                   AreaDosIntervalos(casos.perfil, 1, casos.zc,
                       tan_theta(casos.theta), iv[1], iv[2])

\* a call of the windward routine below the keel with two intersections
\* whose hull and wedge integrals differ
C23_Testemunha ==
    /\ pcCasos = "devolvido"
    /\ casos.lado = "be"
    /\ casos.zc < z_min_perfil
    /\ Len(casos.raizes) >= 2
    /\ casos.resultado.area # 0


----------------------------------------------------------------------------
(* Claims about the draft update of the trim/sinkage loops.                *)

\* a pass of the loop body that did not meet the tolerances
PassoNaoConvergido ==
    /\ pcTrim = "laco"
    /\ avaliacoes' = avaliacoes + 1
    /\ pcTrim' = "laco"

\* C24: each non-converged iteration of the trim/sinkage loop replaces the
\* trial drafts by the values obtained from the hydrostatics at the
\* current trial drafts: trim = disp_target * (LCG_target - LCB) /
\* (MTc * 100), applied as draft_aft - trim * LCF / Lpp and draft_fwd +
\* trim * (1 - LCF / Lpp), then mean = (disp_target - disp_calc) /
\* (TPC * 100) added to both drafts; one iteration changes
\* (draft_fwd - draft_aft) by exactly trim.
C24_AtualizacaoDosCalados ==
    [][ PassoNaoConvergido =>
          LET props == PropriedadesHidrostaticas(calado_re_atual,
                                                 calado_vante_atual)
              trim == IF props.mtc_num = 0 THEN 0
                      ELSE (((desloc_alvo * props.mtc_den)
                                \div props.mtc_num)
                            * (lcg_alvo - props.lcb)) \div 1000
              media == IF props.tpc100 = 0 THEN 0
                       ELSE (desloc_alvo - props.deslocamento)
                                \div props.tpc100
          IN  /\ calado_re_atual' =
                    calado_re_atual - (trim * props.lcf) \div (1000 * Lpp)
                    + media
              /\ (calado_vante_atual' - calado_re_atual') =
                    (calado_vante_atual - calado_re_atual) + trim
      ]_vars

\* after a pass that applied a trim and a mean-draft correction
C24_Testemunha ==
    /\ pcTrim = "laco"
    /\ avaliacoes = 1
    /\ calado_re_atual # calado_vante_atual
    /\ calado_re_atual + calado_vante_atual
          # 2 * calado_estimado(rotina, desloc_alvo, 0)
    /\ calado_re_atual + calado_vante_atual
          # 2 * calado_estimado(rotina, desloc_alvo, 50000)

\* a trial draft pair that does not meet the tolerances and has neither
\* MTc nor TPC
SemCorrecao ==
    LET props == PropriedadesHidrostaticas(calado_re_atual,
                                           calado_vante_atual)
    IN  /\ pcTrim = "laco"
        /\ props.mtc_num = 0
        /\ props.tpc100 = 0
        /\ ~convergiu(rotina, props, desloc_alvo, lcg_alvo)

\* C27: if at a non-converged iterate of the trim/sinkage loop both MTc
\* and TPC are 0, the trim and mean-draft corrections are both 0, the
\* trial drafts are left unchanged, every later iteration evaluates the
\* same drafts, and the loop ends non-converged after exactly 100
\* iterations without storing a flotation result.
C27_SemCorrecaoEsgotaOLaco ==
    /\ [][ SemCorrecao =>
             /\ calado_re_atual' = calado_re_atual
             /\ calado_vante_atual' = calado_vante_atual
             /\ pcTrim' # "convergiu"
             /\ resultado_flutuacao' = Vazio
             /\ pcTrim' = "nao_convergiu" => avaliacoes' = max_iteracoes
         ]_vars
    /\ SemCorrecao ~> (/\ pcTrim = "nao_convergiu"
                       /\ avaliacoes = max_iteracoes
                       /\ resultado_flutuacao = Vazio)

\* a loop that ended at its cap on a draft pair without MTc and TPC, other
\* than its first estimate
C27_Testemunha ==
    LET props == PropriedadesHidrostaticas(calado_re_atual,
                                           calado_vante_atual)
    IN  /\ pcTrim = "nao_convergiu"
        /\ props.mtc_num = 0
        /\ props.tpc100 = 0
        /\ desloc_alvo > 0
        /\ calado_re_atual # calado_vante_atual


----------------------------------------------------------------------------
(* CalculadoraEED.gerar_curvas_estabilidade (eed.py lines 411-471) with    *)
(* calcular_momento_superficie_livre (lines 120-183).  Weights are tonnes, *)
(* levers millimetres, moments tonne-millimetres.  The KN table of a       *)
(* condition is the one-row table calcular_curvas_kn returns for its       *)
(* displacement; the moment V * b * g * k * sqrt(d) of a tank is a         *)
(* function of the angle that the tank's record carries.                   *)

MaxCondicoes == 2

\* angulos = list(range(0, 41, 2))
angulos == [i \in 1..21 |-> 2 * (i - 1)]

\* 1000 * math.sin(math.radians(teta)) for the angles of the curve
seno_milesimos(teta) ==
    <<0, 35, 70, 105, 139, 174, 208, 242, 276, 309, 342, 375, 407, 438,
      469, 500, 530, 559, 588, 616, 643>>[(teta \div 2) + 1]

\* a tank: whether one of volume, largura, densidade, comprimento, altura
\* is zero, and its moment per degree of heel
TanquesPossiveis ==
    [campo_zero : BOOLEAN, msl_por_grau : {1, 400}]

ListasDeTanques ==
    {<<>>} \cup {<<t>> : t \in TanquesPossiveis}
           \cup {<<t, u>> : t \in {[campo_zero |-> FALSE, msl_por_grau |-> 400]},
                            u \in TanquesPossiveis}

\* msl_tanque = V * b * g * k * math.sqrt(d)
msl_tanque(tanque, teta) == tanque.msl_por_grau * teta

RECURSIVE soma_msl(_, _, _)
soma_msl(tanques, teta, k) ==
    IF k > Len(tanques) THEN 0
    ELSE (IF tanques[k].campo_zero THEN 0 ELSE msl_tanque(tanques[k], teta))
         + soma_msl(tanques, teta, k + 1)

\* calcular_momento_superficie_livre(angulo_q_graus), lines 131-183;
\* limite_msl = 0.01 * self.deslocamento_leve
calcular_momento_superficie_livre(tanques, deslocamento_leve, teta) ==
    IF tanques = <<>> THEN 0
    ELSE IF teta % 90 = 0 THEN 0
    ELSE IF soma_msl(tanques, teta, 1) < 10 * deslocamento_leve THEN 0
    ELSE soma_msl(tanques, teta, 1)

\* the KN cell calcular_kn_para_ponto gives for a displacement and an
\* angle: 0 at angle 0, NaN where the equilibrium search fails, else a
\* lever [mm]
CurvasKN == [falha_em : {-1, 20}, kn_por_grau : {20, 45}]

kn_da_tabela(curva, desloc, teta) ==
    IF desloc = 0 \/ teta = 0 THEN 0
    ELSE IF teta = curva.falha_em THEN NaN
    ELSE curva.kn_por_grau * teta - desloc

\* desloc_condicao < 1e-6
deslocamento_zero(desloc) == desloc <= 0

\* gz_final = kn_valor + kg_sin_teta - fsc
gz_final_soma_kg(kn, kg_sin_teta, fsc) ==
    IF kn = NaN THEN NaN ELSE kn + kg_sin_teta - fsc

\* gz_final = kn_valor - kg_sin_teta - fsc (line 454)
gz_final(kn, kg_sin_teta, fsc) ==
    IF kn = NaN THEN NaN ELSE kn - kg_sin_teta - fsc

\* one row of curva_gz_detalhada, lines 440-462
linha_da_curva(e, cond, teta) ==
    LET kn == kn_da_tabela(e.curva_kn, cond.peso_total, teta)
        kg_sin_teta == (cond.kg_condicao * seno_milesimos(teta)) \div 1000
        msl == calcular_momento_superficie_livre(e.dados_tanques,
                   e.deslocamento_leve, teta)
        fsc == IF cond.peso_total > 0 THEN msl \div cond.peso_total ELSE 0
    IN  [angulo |-> teta, kn |-> kn, kg_sen |-> kg_sin_teta, fsc |-> fsc,
         gz |-> gz_final(kn, kg_sin_teta, fsc)]

CondicoesPossiveis == [peso_total : {0, 10, 40}, kg_condicao : {0, 1500}]

ListasDeCondicoes ==
    UNION {[1..n -> CondicoesPossiveis] : n \in 1..MaxCondicoes}

SemCurva == <<>>

InitGZ ==
    /\ pcGZ = "pronto"
    /\ entrada_gz \in [condicoes : ListasDeCondicoes,
                       dados_tanques : ListasDeTanques,
                       deslocamento_leve : {0, 100},
                       curva_kn : CurvasKN]
    /\ indice_gz = 0
    /\ curvas_gz = [i \in DOMAIN entrada_gz.condicoes |-> SemCurva]
    /\ ConsultaInicial /\ CasosInicial /\ InclinantesInicial /\ RPIInicial
    /\ ListaInicial
    /\ ZcInicial /\ KnInicial /\ TrimInicial /\ CascoInicial
    /\ RaizesInicial /\ PurezaInicial /\ HidroInicial /\ IntegrarInicial

gz_inalterado ==
    UNCHANGED <<varsAntigos, varsConsulta, varsCasos, varsInclinantes,
                varsRPI, varsLista>>

\* lines 416-422: the angles are fixed and the loop over the conditions
\* starts
gerar_curvas_estabilidade ==
    /\ pcGZ = "pronto"
    /\ pcGZ' = "laco"
    /\ indice_gz' = 1
    /\ UNCHANGED <<entrada_gz, curvas_gz>>
    /\ gz_inalterado

\* lines 424-471: one pass of the loop over resultados_condicoes
gerar_curva_da_condicao ==
    /\ pcGZ = "laco"
    /\ indice_gz <= Len(entrada_gz.condicoes)
    /\ LET cond == entrada_gz.condicoes[indice_gz]
       IN  IF deslocamento_zero(cond.peso_total)
           THEN UNCHANGED curvas_gz
           ELSE curvas_gz' =
                  [curvas_gz EXCEPT ![indice_gz] =
                      [j \in DOMAIN angulos |->
                          linha_da_curva(entrada_gz, cond, angulos[j])]]
    /\ indice_gz' = indice_gz + 1
    /\ UNCHANGED <<pcGZ, entrada_gz>>
    /\ gz_inalterado

\* the loop over the conditions is over
concluir_curvas ==
    /\ pcGZ = "laco"
    /\ indice_gz > Len(entrada_gz.condicoes)
    /\ pcGZ' = "concluido"
    /\ UNCHANGED <<entrada_gz, indice_gz, curvas_gz>>
    /\ gz_inalterado

NextGZ ==
    \/ gerar_curvas_estabilidade
    \/ gerar_curva_da_condicao
    \/ concluir_curvas

SpecGZ == InitGZ /\ [][NextGZ]_vars

\* the free-surface moment of the tanks at an angle, as the claim reads it
MomentoDeSuperficieLivre(teta) ==
    LET tanques == entrada_gz.dados_tanques
        total == soma_msl(tanques, teta, 1)
    IN  IF teta = 0 \/ total < 10 * entrada_gz.deslocamento_leve THEN 0
        ELSE total

\* C25: for every loading condition with total weight >= 1e-6,
\* gerar_curvas_estabilidade stores a GZ curve with one row per heel angle
\* 0, 2, ..., 40 degrees in which GZ = KN - KG * sin(theta) - FSC, where
\* KN is the KN table cell for that condition's displacement and that
\* angle, KG the condition's vertical centre of gravity and FSC the
\* free-surface moment at theta divided by the displacement.
C25_CurvaGZ ==
    pcGZ = "concluido" =>
        \A i \in DOMAIN entrada_gz.condicoes :
            LET cond == entrada_gz.condicoes[i]
                curva == curvas_gz[i]
            IN  cond.peso_total > 0 =>
                  /\ Len(curva) = 21
                  /\ \A j \in 1..21 :
                        LET teta == 2 * (j - 1)
                            kn == kn_da_tabela(entrada_gz.curva_kn,
                                               cond.peso_total, teta)
                        IN  /\ curva[j].angulo = teta
                            /\ curva[j].kn = kn
                            /\ curva[j].fsc =
                                  MomentoDeSuperficieLivre(teta)
                                      \div cond.peso_total
                            /\ kn # NaN =>
                                  curva[j].gz =
                                      kn
                                      - (cond.kg_condicao
                                           * seno_milesimos(teta)) \div 1000
                                      - curva[j].fsc
                            /\ kn = NaN => curva[j].gz = NaN

\* a stored curve with a KG correction and a free-surface correction that
\* are not zero
C25_Testemunha ==
    /\ pcGZ = "concluido"
    /\ \E i \in DOMAIN curvas_gz :
          /\ curvas_gz[i] # SemCurva
          /\ curvas_gz[i][21].fsc > 0
          /\ curvas_gz[i][21].kg_sen > 0
          /\ curvas_gz[i][21].gz # NaN


----------------------------------------------------------------------------
(* Claims about the position of the roots.                                 *)

\* the pass of the loop over the interval indice has added a root
RaizAcrescentada ==
    /\ pcRaizes = "laco"
    /\ Len(raizes_encontradas') = Len(raizes_encontradas) + 1

\* C26: every root returned by _encontrar_raizes lies inside the
\* sign-change interval [x_i, x_i+1] that produced it, and therefore
\* inside the search interval, including when the refinement by brentq
\* fails and the fallback solve started from the midpoint of the interval
\* supplies the root.
C26_RaizDentroDoIntervalo ==
    /\ [][ RaizAcrescentada =>
             LET raiz == raizes_encontradas'[Len(raizes_encontradas')]
             IN  /\ pontos_x(indice) <= raiz.valor
                 /\ raiz.valor <= pontos_x(indice + 1)
         ]_vars
    /\ [](pcRaizes # "abortou")
    /\ [](pcRaizes = "retornou" =>
             \A k \in DOMAIN raizes_retornadas :
                 /\ pontos_x(1) <= raizes_retornadas[k]
                 /\ raizes_retornadas[k] <= pontos_x(NumPontos))


----------------------------------------------------------------------------
(* CalculadoraRPI.calcular_momentos_inclinantes (rpi.py lines 276-338).    *)
(* An item to deduct is a test weight ('Peso da prova' in its name) or     *)
(* not; weights are tonnes and transverse positions metres.                *)

MaxItens == 5

ItensPossiveis ==
    [prova : {TRUE}, peso : {1, 2}, tcg : {-1, 2}]
        \cup {[prova |-> FALSE, peso |-> 3, tcg |-> 1]}

ListasDeItens == UNION {[1..n -> ItensPossiveis] : n \in 0..MaxItens}

\* [item for item in self.dados_rpi['itens_a_deduzir']
\*  if 'Peso da prova' in item['nome']]
pesos_prova_brutos(itens) == SelectSeq(itens, LAMBDA item : item.prova)

RECURSIVE momento_ate(_, _)
momento_ate(estado_dos_pesos, k) ==
    IF k = 0 THEN 0
    ELSE momento_ate(estado_dos_pesos, k - 1)
         + estado_dos_pesos[k].peso * estado_dos_pesos[k].tcg

\* _get_momento_total(estado_dos_pesos)
_get_momento_total(estado_dos_pesos) ==
    momento_ate(estado_dos_pesos, Len(estado_dos_pesos))

\* a sequence whose last movement moves A again instead of D
sequencia_sem_volta_de_D == <<1, 2, 2, 1, 0, 3, 0, 0>>

\* sequencia_movimentos = [1, 2, 2, 1, 0, 3, 0, 3]
sequencia_movimentos == <<1, 2, 2, 1, 0, 3, 0, 3>>

\* [0.0] * 9
nove_zeros == [i \in 1..9 |-> 0]

InitInclinantes ==
    /\ pcInclinantes = "pronto"
    /\ itens_a_deduzir \in ListasDeItens
    /\ estado_atual_pesos = <<>>
    /\ momentos_calculados = <<>>
    /\ momentos_inclinantes = <<>>
    /\ ConsultaInicial /\ CasosInicial /\ GZInicial /\ RPIInicial
    /\ ListaInicial
    /\ ZcInicial /\ KnInicial /\ TrimInicial /\ CascoInicial
    /\ RaizesInicial /\ PurezaInicial /\ HidroInicial /\ IntegrarInicial

inclinantes_inalterado ==
    UNCHANGED <<varsAntigos, varsConsulta, varsCasos, varsGZ, varsRPI,
                varsLista>>

\* lines 284-323: the test weights are filtered; without any the result is
\* nine zeros, otherwise the moment of the initial state is recorded
calcular_momentos_inclinantes ==
    /\ pcInclinantes = "pronto"
    /\ LET pesos_prova == pesos_prova_brutos(itens_a_deduzir)
       IN  IF pesos_prova = <<>>
           THEN /\ momentos_inclinantes' = nove_zeros
                /\ pcInclinantes' = "concluido"
                /\ UNCHANGED <<estado_atual_pesos, momentos_calculados>>
           ELSE /\ estado_atual_pesos' = pesos_prova
                /\ momentos_calculados' = <<_get_momento_total(pesos_prova)>>
                /\ pcInclinantes' = "laco"
                /\ UNCHANGED momentos_inclinantes
    /\ UNCHANGED itens_a_deduzir
    /\ inclinantes_inalterado

\* lines 329-335: one pass of the loop over sequencia_movimentos;
\* estado_atual_pesos[idx_peso] raises IndexError when there are fewer
\* weights than the sequence names
mover_peso ==
    /\ pcInclinantes = "laco"
    /\ Len(momentos_calculados) <= Len(sequencia_movimentos)
    /\ LET idx_peso == sequencia_movimentos[Len(momentos_calculados)]
       IN  IF idx_peso + 1 > Len(estado_atual_pesos)
           THEN /\ pcInclinantes' = "levantou"
                /\ UNCHANGED <<estado_atual_pesos, momentos_calculados>>
           ELSE LET movido ==
                      [estado_atual_pesos EXCEPT
                          ![idx_peso + 1].tcg =
                              (0 - 1) * estado_atual_pesos[idx_peso + 1].tcg]
                IN  /\ estado_atual_pesos' = movido
                    /\ momentos_calculados' =
                          Append(momentos_calculados,
                                 _get_momento_total(movido))
                    /\ UNCHANGED pcInclinantes
    /\ UNCHANGED <<itens_a_deduzir, momentos_inclinantes>>
    /\ inclinantes_inalterado

\* line 337: self.momentos_inclinantes = momentos_calculados
guardar_momentos ==
    /\ pcInclinantes = "laco"
    /\ Len(momentos_calculados) > Len(sequencia_movimentos)
    /\ momentos_inclinantes' = momentos_calculados
    /\ pcInclinantes' = "concluido"
    /\ UNCHANGED <<itens_a_deduzir, estado_atual_pesos, momentos_calculados>>
    /\ inclinantes_inalterado

NextInclinantes ==
    \/ calcular_momentos_inclinantes
    \/ mover_peso
    \/ guardar_momentos

SpecInclinantes == InitInclinantes /\ [][NextInclinantes]_vars

\* the four inclining weights of the test, in the order A, B, C, D
QuatroPesos == SelectSeq(itens_a_deduzir, LAMBDA item : item.prova)

\* the number of times a weight has been moved after the first k movements
\* of the sequence B, C, C, B, A, D, A, D
VezesMovido(peso, k) ==
    Cardinality({j \in 1..k : <<2, 3, 3, 2, 1, 4, 1, 4>>[j] = peso})

\* the total transverse moment after the first k movements
MomentoApos(k) ==
    LET parcela(i) ==
            IF VezesMovido(i, k) % 2 = 0
            THEN QuatroPesos[i].peso * QuatroPesos[i].tcg
            ELSE 0 - QuatroPesos[i].peso * QuatroPesos[i].tcg
    IN  parcela(1) + parcela(2) + parcela(3) + parcela(4)

\* C28: calcular_momentos_inclinantes, given four inclining weights A, B,
\* C, D, applies the fixed movement sequence B, C, C, B, A, D, A, D, each
\* movement negating the transverse position of one weight, and records
\* the total transverse moment after each step: the result has exactly 9
\* entries, entry 0 is the moment before any movement, and entries 4 and 8
\* equal entry 0.
C28_NoveMomentos ==
    (pcInclinantes \in {"concluido", "levantou"} /\ Len(QuatroPesos) = 4) =>
        /\ pcInclinantes = "concluido"
        /\ Len(momentos_inclinantes) = 9
        /\ \A k \in 0..8 : momentos_inclinantes[k + 1] = MomentoApos(k)
        /\ momentos_inclinantes[5] = momentos_inclinantes[1]
        /\ momentos_inclinantes[9] = momentos_inclinantes[1]

\* a finished call with four weights whose movements all change the moment
C28_Testemunha ==
    /\ pcInclinantes = "concluido"
    /\ Len(QuatroPesos) = 4
    /\ Len(itens_a_deduzir) = 5
    /\ momentos_inclinantes[1] # 0
    /\ \A k \in 1..8 : momentos_inclinantes[k + 1] # momentos_inclinantes[k]


----------------------------------------------------------------------------
(* The report steps of CalculadoraRPI (rpi.py), called in any order.  An   *)
(* attribute of the calculator is known by what the steps test of it: a    *)
(* dictionary or list by whether it is empty, momentos_inclinantes by its  *)
(* length, vcg_prova by whether it has been assigned and whether it is     *)
(* zero.  The data of the test decide what a step finds: whether the       *)
(* draft marks are apart (LRV > 0), whether there are reading devices, how *)
(* many test weights there are, whether KMt equals the mean GM, whether    *)
(* the light-ship loop converges.                                          *)

EntradasRPI ==
    [lrv_positivo : BOOLEAN, tem_dispositivos : BOOLEAN,
     pesos_prova : {0, 3, 4}, kmt_igual_gm : BOOLEAN, converge : BOOLEAN]

\* lines 35-67 of __init__
AtributosRPI ==
    [calados_nas_marcas |-> FALSE,
     calados_nas_perpendiculares |-> FALSE,
     calado_medio |-> FALSE,
     total_deducoes |-> FALSE,
     leituras_processadas |-> FALSE,
     momentos_inclinantes |-> 0,
     hidrostaticos_prova |-> FALSE,
     vcg_calculado |-> FALSE,
     vcg_prova |-> FALSE,
     navio_leve_resultados |-> FALSE,
     hidrostaticos_navio_leve |-> FALSE,
     flutuacao_navio_leve |-> FALSE,
     passo |-> "nenhum",
     levantou |-> FALSE]

\* the attributes after a step that returned
Retornou(r, passo) == [r EXCEPT !.passo = passo, !.levantou = FALSE]

\* the attributes after a step that raised
Levantou(r, passo) == [r EXCEPT !.passo = passo, !.levantou = TRUE]

\* if not self.calados_nas_perpendiculares or not self.calados_nas_marcas
faltam_calados(r) ==
    ~r.calados_nas_perpendiculares \/ ~r.calados_nas_marcas

\* the three tests of lines 495-503
faltam_dados_de_gm(r) ==
    \/ ~r.leituras_processadas
    \/ r.momentos_inclinantes < 9
    \/ ~r.hidrostaticos_prova

\* if not self.hidrostaticos_prova or not self.vcg_prova
falta_condicao_inclinada(r) == ~r.hidrostaticos_prova \/ ~r.vcg_prova

\* a light-ship flotation step that does not look at navio_leve_resultados
falta_navio_leve_nunca(r) == FALSE

\* if not self.navio_leve_resultados
falta_navio_leve(r) == ~r.navio_leve_resultados

InitRPI ==
    /\ pcRPI = "pronto"
    /\ dados_rpi \in EntradasRPI
    /\ rpi = AtributosRPI
    /\ ConsultaInicial /\ CasosInicial /\ GZInicial /\ InclinantesInicial
    /\ ListaInicial
    /\ ZcInicial /\ KnInicial /\ TrimInicial /\ CascoInicial
    /\ RaizesInicial /\ PurezaInicial /\ HidroInicial /\ IntegrarInicial

rpi_inalterado ==
    /\ UNCHANGED <<pcRPI, dados_rpi>>
    /\ UNCHANGED <<varsAntigos, varsConsulta, varsCasos, varsGZ,
                   varsInclinantes, varsLista>>

\* lines 69-135: the drafts at the marks are stored, those at the
\* perpendiculars only when LRV > 0
calcular_condicao_flutuacao ==
    /\ pcRPI = "pronto"
    /\ rpi' = Retornou([rpi EXCEPT
                   !.calados_nas_marcas = TRUE,
                   !.calados_nas_perpendiculares =
                       @ \/ dados_rpi.lrv_positivo],
               "calcular_condicao_flutuacao")
    /\ rpi_inalterado

\* lines 193-212
calcular_pesos_e_momentos ==
    /\ pcRPI = "pronto"
    /\ rpi' = Retornou([rpi EXCEPT !.total_deducoes = TRUE],
                       "calcular_pesos_e_momentos")
    /\ rpi_inalterado

\* lines 214-274: one entry per pendulum or U-tube
processar_leituras_inclinacao ==
    /\ pcRPI = "pronto"
    /\ rpi' = Retornou([rpi EXCEPT
                   !.leituras_processadas = @ \/ dados_rpi.tem_dispositivos],
               "processar_leituras_inclinacao")
    /\ rpi_inalterado

\* lines 276-338: nine moments, or the IndexError of a sequence that names
\* a weight the list does not have
momentos_da_prova ==
    /\ pcRPI = "pronto"
    /\ rpi' = IF dados_rpi.pesos_prova \in {0, 4}
              THEN Retornou([rpi EXCEPT !.momentos_inclinantes = 9],
                            "calcular_momentos_inclinantes")
              ELSE Levantou(rpi, "calcular_momentos_inclinantes")
    /\ rpi_inalterado

\* lines 340-372
calcular_caracteristicas_hidrostaticas_prova ==
    /\ pcRPI = "pronto"
    /\ rpi' = IF faltam_calados(rpi)
              THEN Retornou(rpi, "calcular_caracteristicas_hidrostaticas_prova")
              ELSE Retornou([rpi EXCEPT !.calado_medio = TRUE],
                            "calcular_caracteristicas_hidrostaticas_prova")
    /\ rpi_inalterado

\* lines 424-484: self.calados_nas_perpendiculares['re'] raises KeyError
\* on the empty dictionary
calcular_hidrostaticos_corrigidos ==
    /\ pcRPI = "pronto"
    /\ rpi' = IF ~rpi.calados_nas_perpendiculares
              THEN Levantou(rpi, "calcular_hidrostaticos_corrigidos")
              ELSE Retornou([rpi EXCEPT !.hidrostaticos_prova = TRUE],
                            "calcular_hidrostaticos_corrigidos")
    /\ rpi_inalterado

\* lines 486-592: vcg_prova = kmt_prova - gm_prova
calcular_gm_vcg ==
    /\ pcRPI = "pronto"
    /\ rpi' = IF faltam_dados_de_gm(rpi)
              THEN Retornou(rpi, "calcular_gm_vcg")
              ELSE Retornou([rpi EXCEPT
                                !.vcg_calculado = TRUE,
                                !.vcg_prova = ~dados_rpi.kmt_igual_gm],
                            "calcular_gm_vcg")
    /\ rpi_inalterado

\* lines 594-660: deducoes['peso'] raises KeyError while total_deducoes
\* is the empty dictionary of the constructor
calcular_condicao_navio_leve ==
    /\ pcRPI = "pronto"
    /\ rpi' = IF falta_condicao_inclinada(rpi)
              THEN Retornou(rpi, "calcular_condicao_navio_leve")
              ELSE IF ~rpi.total_deducoes
              THEN Levantou(rpi, "calcular_condicao_navio_leve")
              ELSE Retornou([rpi EXCEPT !.navio_leve_resultados = TRUE],
                            "calcular_condicao_navio_leve")
    /\ rpi_inalterado

\* lines 662-750: the two results are stored when the loop converges
calcular_hidrostaticos_navio_leve ==
    /\ pcRPI = "pronto"
    /\ rpi' = IF falta_navio_leve(rpi)
              THEN Retornou(rpi, "calcular_hidrostaticos_navio_leve")
              ELSE IF dados_rpi.converge
              THEN Retornou([rpi EXCEPT
                                !.flutuacao_navio_leve = TRUE,
                                !.hidrostaticos_navio_leve = TRUE],
                            "calcular_hidrostaticos_navio_leve")
              ELSE Retornou(rpi, "calcular_hidrostaticos_navio_leve")
    /\ rpi_inalterado

NextRPI ==
    \/ calcular_condicao_flutuacao
    \/ calcular_pesos_e_momentos
    \/ processar_leituras_inclinacao
    \/ momentos_da_prova
    \/ calcular_caracteristicas_hidrostaticas_prova
    \/ calcular_hidrostaticos_corrigidos
    \/ calcular_gm_vcg
    \/ calcular_condicao_navio_leve
    \/ calcular_hidrostaticos_navio_leve

SpecRPI == InitRPI /\ [][NextRPI]_vars

\* the results the calculator stores, without the record of the last call
Guardado(r) == [r EXCEPT !.passo = "nenhum", !.levantou = FALSE]

\* the step called returned and stored nothing
NadaGuardado == Guardado(rpi') = Guardado(rpi) /\ ~rpi'.levantou

\* C29: the report steps of CalculadoraRPI enforce their prerequisites in
\* any call order, each returning without storing anything when its
\* inputs are missing: calcular_caracteristicas_hidrostaticas_prova needs
\* the drafts at marks and perpendiculars; calcular_gm_vcg needs processed
\* readings, at least 9 inclining moments and a displacement in
\* hidrostaticos_prova; calcular_condicao_navio_leve needs
\* hidrostaticos_prova and a non-zero vcg_prova;
\* calcular_hidrostaticos_navio_leve needs navio_leve_resultados.  Hence
\* flutuacao_navio_leve is non-empty only where navio_leve_resultados is,
\* and navio_leve_resultados only where vcg_prova has been computed.
C29_PreRequisitos ==
    /\ [][ /\ (/\ rpi'.passo = "calcular_caracteristicas_hidrostaticas_prova"
               /\ ~(rpi.calados_nas_marcas /\ rpi.calados_nas_perpendiculares))
              => NadaGuardado
           /\ (/\ rpi'.passo = "calcular_gm_vcg"
               /\ ~(/\ rpi.leituras_processadas
                    /\ rpi.momentos_inclinantes >= 9
                    /\ rpi.hidrostaticos_prova))
              => NadaGuardado
           /\ (/\ rpi'.passo = "calcular_condicao_navio_leve"
               /\ ~(rpi.hidrostaticos_prova /\ rpi.vcg_prova))
              => NadaGuardado
           /\ (/\ rpi'.passo = "calcular_hidrostaticos_navio_leve"
               /\ ~rpi.navio_leve_resultados)
              => NadaGuardado
         ]_rpi
    /\ [](pcRPI = "pronto" =>
             /\ rpi.flutuacao_navio_leve => rpi.navio_leve_resultados
             /\ rpi.navio_leve_resultados => rpi.vcg_calculado)

\* the whole chain has run and the light-ship flotation is stored
C29_Testemunha ==
    /\ pcRPI = "pronto"
    /\ rpi.flutuacao_navio_leve
    /\ rpi.calado_medio


----------------------------------------------------------------------------
(* gerar_lista_de_calados (list_utils.py).  A draft is an integer number   *)
(* of 1/EscalaLista, a scale that keeps the points of linspace and the     *)
(* half step of arange exact.  The text of method 'lista' is the sequence  *)
(* of its pieces between semicolons: a number, "nan", blanks, or text that *)
(* float() rejects.                                                        *)

MaxValores == 3
MaxNum == 4
MaxCaladoLista == 2

EscalaLista == Fatorial(MaxNum - 1)

PedacoNumero(n) == [tipo |-> "numero", valor |-> n]
PedacoNaN == [tipo |-> "nan", valor |-> 0]
PedacoVazio == [tipo |-> "vazio", valor |-> 0]
PedacoInvalido == [tipo |-> "invalido", valor |-> 0]

Pedacos ==
    {PedacoNumero(n) : n \in -1..MaxCaladoLista}
        \cup {PedacoNaN, PedacoVazio, PedacoInvalido}

Textos == UNION {[1..n -> Pedacos] : n \in 0..MaxValores}

SemTexto == <<>>

DadosDeLista ==
    {[metodo |-> "lista", valores |-> t, min |-> 0, max |-> 0, num |-> 0,
      passo |-> 0] : t \in Textos}

DadosDeNumero ==
    {[metodo |-> "numero", valores |-> SemTexto, min |-> a, max |-> b,
      num |-> n, passo |-> 0] :
        a \in -1..MaxCaladoLista, b \in -1..MaxCaladoLista, n \in -1..MaxNum}

DadosDePasso ==
    {[metodo |-> "passo", valores |-> SemTexto, min |-> a, max |-> b,
      num |-> 0, passo |-> p] :
        a \in -1..MaxCaladoLista, b \in -1..MaxCaladoLista,
        p \in -1..MaxCaladoLista}

DadosDeOutro ==
    {[metodo |-> mt, valores |-> SemTexto, min |-> 0, max |-> b, num |-> 0,
      passo |-> 0] : mt \in {"outro", "nenhum"}, b \in 0..MaxCaladoLista}

\* a list that was built, as against the exception Levanta
Calados(lista) == [tipo |-> "lista", valor |-> lista]

\* float(c.strip())
float_do_pedaco(c) ==
    IF c.tipo = "nan" THEN NaN ELSE c.valor * EscalaLista

\* [float(c.strip()) for c in valores_str.split(';') if c.strip()]
calados_da_lista(texto) ==
    LET com_texto == SelectSeq(texto, LAMBDA c : c.tipo # "vazio")
    IN  IF \E i \in 1..Len(com_texto) : com_texto[i].tipo = "invalido"
        THEN Levanta
        ELSE Calados([i \in 1..Len(com_texto) |->
                         float_do_pedaco(com_texto[i])])

\* np.linspace(min, max, int(num)).tolist()
linspace(a, b, n) ==
    IF n < 0 THEN Levanta
    ELSE IF n = 1 THEN Calados(<<a * EscalaLista>>)
    ELSE Calados([i \in 1..n |->
            a * EscalaLista + (i - 1) * (b - a) * (EscalaLista \div (n - 1))])

\* the least integer not below a / b, for b > 0
teto_da_divisao(a, b) == -((-a) \div b)

\* np.arange(start, stop, step).tolist(), the three in 1/EscalaLista
arange(start, stop, step) ==
    IF step = 0 THEN Levanta
    ELSE LET n == IF step > 0
                  THEN teto_da_divisao(stop - start, step)
                  ELSE teto_da_divisao(start - stop, -step)
         IN  Calados([i \in 1..Max(n, 0) |-> start + (i - 1) * step])

\* the branch of method 'passo': calados[-1] of an empty list raises
\* IndexError
calados_do_passo(a, b, p) ==
    LET gerada == arange(a * EscalaLista,
                         b * EscalaLista + (p * EscalaLista) \div 2,
                         p * EscalaLista)
        lista == gerada.valor
    IN  IF gerada = Levanta THEN Levanta
        ELSE IF lista = <<>> THEN Levanta
        ELSE IF Abs(lista[Len(lista)] - b * EscalaLista) > 0
        THEN Calados(Append(lista, b * EscalaLista))
        ELSE gerada

\* a filter that keeps every value
qualquer_calado(c) == TRUE

\* c >= 0, false of NaN
nao_negativo(c) == c # NaN /\ c >= 0

RECURSIVE sorted(_)
sorted(S) ==
    IF S = {} THEN <<>>
    ELSE LET menor == CHOOSE x \in S : \A y \in S : x <= y
         IN  <<menor>> \o sorted(S \ {menor})

\* lines 15-45
calados_gerados(dados) ==
    LET gerada ==
            IF dados.metodo = "lista" THEN calados_da_lista(dados.valores)
            ELSE IF dados.metodo = "numero"
            THEN linspace(dados.min, dados.max, dados.num)
            ELSE IF dados.metodo = "passo"
            THEN calados_do_passo(dados.min, dados.max, dados.passo)
            ELSE Calados(<<>>)
        calados == gerada.valor
    IN  IF gerada = Levanta THEN Levanta
        ELSE Calados(sorted({calados[i] : i \in
                 {j \in 1..Len(calados) : nao_negativo(calados[j])}}))

InitLista ==
    /\ pcLista = "chamada"
    /\ dados_calado \in
           DadosDeLista \cup DadosDeNumero \cup DadosDePasso \cup DadosDeOutro
    /\ lista_calados = <<>>
    /\ ConsultaInicial /\ CasosInicial /\ GZInicial /\ InclinantesInicial
    /\ RPIInicial
    /\ ZcInicial /\ KnInicial /\ TrimInicial /\ CascoInicial
    /\ RaizesInicial /\ PurezaInicial /\ HidroInicial /\ IntegrarInicial

lista_inalterado ==
    UNCHANGED <<varsAntigos, varsConsulta, varsCasos, varsGZ,
                varsInclinantes, varsRPI>>

gerar_lista_de_calados ==
    /\ pcLista = "chamada"
    /\ LET calados == calados_gerados(dados_calado)
       IN  IF calados = Levanta
           THEN pcLista' = "levantou" /\ UNCHANGED lista_calados
           ELSE pcLista' = "retornou" /\ lista_calados' = calados.valor
    /\ UNCHANGED dados_calado
    /\ lista_inalterado

NextLista == gerar_lista_de_calados

SpecLista == InitLista /\ [][NextLista]_vars

\* C30: gerar_lista_de_calados returns, for every input method ('lista',
\* 'numero', 'passo' or unknown), a list in strictly ascending order with
\* no duplicates and no negative value; an unknown method yields the empty
\* list.
C30_ListaDeCalados ==
    pcLista = "retornou" =>
        /\ \A i \in 1..Len(lista_calados) : lista_calados[i] >= 0
        /\ \A i, j \in 1..Len(lista_calados) :
               i < j => lista_calados[i] < lista_calados[j]
        /\ dados_calado.metodo \notin {"lista", "numero", "passo"}
               => lista_calados = <<>>

\* linspace from a higher to a lower, negative draft: the points come out
\* descending and end below zero; two of them or more are returned
C30_Testemunha ==
    /\ pcLista = "retornou"
    /\ dados_calado.metodo = "numero"
    /\ dados_calado.min > dados_calado.max
    /\ dados_calado.max < 0
    /\ Len(lista_calados) >= 2

====
